---------------------------- MODULE Spec2Model ----------------------------
(***************************************************************************)
(* A model of FlashX/FlashGraph application code:                          *)
(*   - global_max and scan_collection, the two shared aggregates of        *)
(*     apps/scan-statistics/topK_scan_graph.cpp, called by worker threads; *)
(*   - the vertex program and driver of libgraph-algs/wcc.cpp;             *)
(*   - the filters and driver of topK_scan_graph.cpp.                      *)
(* graph_engine itself (start, wait4complete, request_vertices,            *)
(* multicast_msg) is not part of these sources; its superstep loop is      *)
(* modelled from the engine's specification (sections 4.2 - 4.4).          *)
(***************************************************************************)
EXTENDS Integers, Sequences, FiniteSets, Bags, TLC

(***************************************************************************)
(* Bounds of the model.                                                    *)
(***************************************************************************)
NumThreads == 2      \* worker threads calling the shared aggregates
MaxCand    == 2      \* candidates / scores are drawn from 0..MaxCand
MaxCalls   == 3      \* calls of global_max::update over one behaviour
MaxResets  == 1      \* driver resets "max_scan = global_max(v)"
MaxScans   == 2      \* calls of scan_collection::add over one behaviour
MaxScore   == 1      \* the scans handed to add are drawn from 0..MaxScore
NumV       == 3      \* vertices of the input graph: ids 0..NumV-1
MaxEdges   == 3      \* directed edges of the input graph
MaxWkEdges == 2      \* the same, where the worker threads are told apart
MaxLen     == 3      \* elements of a range handed to unique_merge
MaxId      == 2      \* the elements of the ranges are drawn from 0..MaxId
MaxK       == 3      \* k is drawn from 0..MaxK
MaxRows    == 3      \* num_rows is drawn from 0..MaxRows
MaxIters   == 2      \* MAX_ITERS is drawn from 0..MaxIters
min_edges  == 4      \* "size_t min_edges = 1000" (topK_scan_graph.cpp:303),
                     \* scaled to the degrees of the graphs below

Threads == 1..NumThreads
NoThread == 0
Values == 0..MaxCand

VARIABLES
    \* ---- global_max max_scan (topK_scan_graph.cpp:64-96)
    value,        \* volatile size_t value
    lock,         \* pthread_spinlock_t lock: NoThread or the holder
    gm_pc,        \* per thread: position inside update()
    new_v,        \* per thread: the argument of the running update()
    ret,          \* per thread: the local "ret" / the last returned value
    \* ---- history of the global_max calls (not program state)
    gm_calls,     \* number of update() calls started
    gm_init,      \* the value the current object was constructed with
    gm_epoch,     \* number of driver resets so far
    submitted,    \* candidates submitted to the current object
    records,      \* candidates installed in the current object, in lock order
    stale,        \* per thread: the value read on the unlocked fast path
    \* ---- scan_collection known_scans (topK_scan_graph.cpp:103-149)
    sorted,       \* bool sorted
    scans,        \* std::vector<vertex_scan> scans: <<id, scan>> pairs
    sc_lock,      \* pthread_spinlock_t lock: NoThread or the holder
    sc_pc,        \* per thread: position inside get / add / get_size
    sc_arg,       \* per thread: idx of get, or the <<id, scan>> of add
    sc_ret,       \* per thread: the value returned (a pair, or a size)
    \* ---- history of the scan_collection calls (not program state)
    sc_calls,     \* number of add() calls started
    added,        \* the pairs pushed so far, ordered by id
    \* ---- the input graph and the engine (graph_engine)
    verts,        \* the vertex ids of the graph index
    edges,        \* the directed edges <<from, to>> of the graph file
    eng_phase,    \* "idle", "run", "deliver" or "quiescent"
    level,        \* the number of the current superstep
    active,       \* vertices scheduled in this superstep and not yet run
    next_active,  \* vertices activated for the next superstep
    io,           \* vertices with a request for their own data in flight
    nb_io,        \* vertices with requests for their neighbors in flight
    flt,          \* the vertex_filter handed to start(): [kind, min]
    msgs,         \* the bag of messages sent and not yet delivered
    \* ---- wcc_vertex and compute_wcc (wcc.cpp)
    wcc_stage,    \* FIND_COMPONENTS or REMOVE_EMPTY
    updated,      \* per vertex: bool updated
    empty,        \* per vertex: bool empty
    component_id, \* per vertex: vertex_id_t component_id
    wcc_pc,       \* position of compute_wcc
    vec,          \* the FG_vector compute_wcc returns
    \* ---- history of the wcc run (not program state)
    received,     \* per vertex: the labels run_on_message was handed
    n_sent,       \* per vertex: messages sent to it
    n_rom,        \* per vertex: invocations of its run_on_message
    cast,         \* per vertex: the lowest label it has multicast
    n_deg,        \* per vertex: request_num_edges calls it has made
    \* ---- topK_scan_vertex and main (topK_scan_graph.cpp)
    has_local_scan, \* per vertex: the local scan has been computed
    has_est,      \* per vertex: local_value.has_est_local()
    est_local,    \* per vertex: local_value.get_est_local()
    tk_pc,        \* position of main
    prev_topK_scan, \* main's prev_topK_scan
    top,          \* the (id, scan) pairs main prints
    \* ---- history of the run (not program state)
    n_req,        \* per vertex: accepted data requests
    n_cb,         \* per vertex: data callbacks invoked
    ran,          \* vertices whose run() was invoked since the last start
    \* ---- the worker threads of the engine
    cb,           \* per thread: the callback it is executing, or NoCb
    \* ---- history of the reads through get_vertex (not program state)
    peeked,       \* <<v, u>>: a callback of v has read the record of u
    \* ---- overlap_vertex and main (overlap.cpp)
    overlap_stage,    \* CONSTRUCT_NEIGHBORS or COMP_OVERLAP
    overlap_vertices, \* std::vector<vertex_id_t> overlap_vertices
    neighborhood, \* per vertex: *neighborhood, or NULL
    ov_pc,        \* position of main
    overlaps,     \* the lines run_stage2 has printed: <<v, id, common, union>>
    \* ---- vertex_size_scheduler (topK_scan_graph.cpp:36-62)
    sch_ids,      \* std::vector<vertex_id_t> &ids
    sch_pc,       \* "idle", "call" (schedule is entered) or "dispatch"
    \* ---- history of the scheduling (not program state)
    sch_in,       \* the vector as it was handed to schedule
    sch_done,     \* the vertices dispatched so far, in their order
    \* ---- profiling and the interrupt (topK_scan_graph.cpp:283-288)
    prof_file,    \* !graph_conf.get_prof_file().empty()
    profiling,    \* the profiler is running
    \* ---- history of the interrupt (not program state)
    flushed,      \* int_handler has called ProfilerStop()
    \* ---- a call of unique_merge (overlap.cpp)
    um_in1,       \* the range [it1, last1)
    um_in2,       \* the range [it2, last2)
    um_id,        \* the id handed to skip_self
    um_out,       \* what has been written through result
    um_ret,       \* the value returned
    um_pc,        \* "idle", "call" or "returned"
    \* ---- a call of compute_min_kmeans (min-tri-kmeans.cpp)
    K,            \* static size_t K
    NUM_ROWS,     \* static unsigned NUM_ROWS
    MAX_ITERS,    \* const unsigned MAX_ITERS
    km_init,      \* const std::string init
    dist_type,    \* const std::string dist_type
    g_dist_type,  \* the distance chosen, or "unset"
    g_init_type,  \* the initialization chosen, or "unset"
    iter,         \* unsigned iter
    km_pc,        \* position in compute_min_kmeans
    \* ---- history of the call (not program state)
    km_em,        \* the calls of EM_step made
    km_inits,     \* the calls of an initialization routine made
    km_fatal,     \* the fatal messages logged
    km_exit       \* the status handed to exit(), or NoExit

gm_vars == <<value, lock, gm_pc, new_v, ret, gm_calls, gm_init, gm_epoch,
             submitted, records, stale>>

sc_vars == <<sorted, scans, sc_lock, sc_pc, sc_arg, sc_ret, sc_calls, added>>

eng_vars == <<verts, edges, eng_phase, level, active, next_active, io, nb_io, flt,
              msgs, n_req, n_cb, ran>>

tk_vars == <<has_local_scan, has_est, est_local, tk_pc, prev_topK_scan, top>>

wcc_vars == <<wcc_stage, updated, empty, component_id, wcc_pc, vec, received,
              n_sent, n_rom, cast, n_deg>>

wk_vars == <<cb>>

rd_vars == <<peeked>>

ov_vars == <<overlap_stage, overlap_vertices, neighborhood, ov_pc, overlaps>>

\* The state of the programs and components that follow the top-K run.
sch_vars == <<sch_ids, sch_pc, sch_in, sch_done>>

sig_vars == <<prof_file, profiling, flushed>>

um_vars == <<um_in1, um_in2, um_id, um_out, um_ret, um_pc>>

km_vars == <<K, NUM_ROWS, MAX_ITERS, km_init, dist_type, g_dist_type,
             g_init_type, iter, km_pc, km_em, km_inits, km_fatal, km_exit>>

lib_vars == <<um_vars, km_vars>>

app_vars == <<ov_vars, sch_vars, sig_vars, lib_vars>>

vars == <<gm_vars, sc_vars, eng_vars, wcc_vars, tk_vars, wk_vars, rd_vars,
          app_vars>>

\* What the actions of one component leave alone.
gm_others == <<sc_vars, eng_vars, wcc_vars, tk_vars, wk_vars, rd_vars, app_vars>>
sc_others == <<gm_vars, eng_vars, wcc_vars, tk_vars, wk_vars, rd_vars, app_vars>>
wcc_others == <<gm_vars, sc_vars, tk_vars, wk_vars, rd_vars, app_vars>>
eng_others == <<gm_vars, sc_vars, wcc_vars, tk_vars, wk_vars, rd_vars, app_vars>>

\* What the top-K run leaves alone of global_max and scan_collection: it
\* takes update, get, add and get_size as single steps.
gm_rest == <<lock, gm_pc, new_v, ret, gm_calls, gm_init, gm_epoch, submitted,
             records, stale>>
sc_rest == <<sc_lock, sc_pc, sc_arg, sc_ret, sc_calls, added>>
tk_rest == <<gm_rest, sc_rest, wcc_vars, wk_vars, app_vars>>
tk_others == <<tk_rest, rd_vars>>

\* The largest element of a non-empty finite set of numbers.
SetMax(S) == CHOOSE y \in S : \A z \in S : z <= y

\* Every add is made by another vertex (known_scans.add(get_id(), ...)): the
\* ids are handed out in the order the calls start.
Ids == 0..(MaxScans - 1)
Scores == 0..MaxScore
ScanPairs == Ids \X Scores

\* A read past the end of the vector (line 131 with idx >= scans.size()) is
\* undefined: the call may fault or hand back any pair.
Fault == "fault"

\* scan_collection(): lock initialised, sorted = false, scans empty.
ScInit ==
    /\ sorted = FALSE
    /\ scans = <<>>
    /\ sc_lock = NoThread
    /\ sc_pc = [t \in Threads |-> "idle"]
    /\ sc_arg = [t \in Threads |-> 0]
    /\ sc_ret = [t \in Threads |-> 0]
    /\ sc_calls = 0
    /\ added = <<>>


(***************************************************************************)
(* The input graph                                                         *)
(***************************************************************************)
Vertices == 0..(NumV - 1)

\* The graphs of the input contract: no self-loops, no duplicate edges.
Graphs ==
    {g \in SUBSET {e \in Vertices \X Vertices : e[1] # e[2]} :
        Cardinality(g) <= MaxEdges}

\* The adjacency of v in a graph file g: edge_type IN_EDGE, OUT_EDGE.
InNeighbors(g, v) == {e[1] : e \in {x \in g : x[2] = v}}
OutNeighbors(g, v) == {e[2] : e \in {x \in g : x[1] = v}}

\* get_num_edges(BOTH_EDGES): the in-edges and the out-edges of v.
NumEdges(g, v) ==
    Cardinality(InNeighbors(g, v)) + Cardinality(OutNeighbors(g, v))

\* The bag of destinations of the neighbor sequence of v (BOTH_EDGES): a
\* neighbor on an in-edge and on an out-edge stands in it twice.
NeighSeq(g, v) ==
    [u \in InNeighbors(g, v) \cup OutNeighbors(g, v) |->
        (IF u \in InNeighbors(g, v) THEN 1 ELSE 0)
      + (IF u \in OutNeighbors(g, v) THEN 1 ELSE 0)]

\* The filters of main: remove_small_filter(min), remove_small_scan_filter(min);
\* start_all() has none.
NoFilter == [kind |-> "none", min |-> 0]
SmallFilter(min) == [kind |-> "remove_small", min |-> min]
SmallScanFilter(min) == [kind |-> "remove_small_scan", min |-> min]

\* A graph of seven vertices: the vertices 0..3 are joined pairwise but for 2
\* and 3 (0 and 1: degree 3, local scan 5; 2 and 3: degree 2, local scan 3,
\* estimate 4); vertex 4 has an edge to and from 5 and 6 (degree 4, local
\* scan 4).  The vertex of the largest degree is not one of the largest
\* local scan.
HubVertices == 0..6
HubGraph ==
    {<<0, 1>>, <<0, 2>>, <<0, 3>>, <<1, 2>>, <<1, 3>>,
     <<4, 5>>, <<5, 4>>, <<4, 6>>, <<6, 4>>}

\* A graph on the same vertices in which the one vertex of min_edges edges
\* has an estimate (5) above its local scan (4): vertex 0 with four
\* neighbors, two of which have a neighbor of their own.
SpurGraph ==
    {<<0, 1>>, <<0, 2>>, <<0, 3>>, <<0, 4>>, <<1, 5>>, <<2, 6>>}

\* Every vertex id of the model.
VertexIds == Vertices \cup HubVertices

\* graph_engine::create on the graph g of vertices V: nothing scheduled,
\* nothing in flight.
EngInit(V, g) ==
    /\ verts = V
    /\ edges = g
    /\ eng_phase = "idle"
    /\ level = 0
    /\ active = {}
    /\ next_active = {}
    /\ io = {}
    /\ nb_io = {}
    /\ flt = NoFilter
    /\ msgs = EmptyBag
    /\ n_req = [v \in VertexIds |-> 0]
    /\ n_cb = [v \in VertexIds |-> 0]
    /\ ran = {}

\* A worker thread that executes no callback; every worker starts so.
NoCb == [v |-> -1, at |-> "none", id |-> 0, hit |-> FALSE]
WkInit == cb = [t \in Threads |-> NoCb]

FIND_COMPONENTS == "FIND_COMPONENTS"
REMOVE_EMPTY == "REMOVE_EMPTY"
\* INVALID_VERTEX_ID is the largest vertex_id_t; here the largest number of
\* the model's integers.
INVALID_VERTEX_ID == 2147483647

\* wcc_vertex(id), line 65-69, for every vertex of the index.
WccInit ==
    /\ wcc_stage = FIND_COMPONENTS
    /\ updated = [v \in Vertices |-> TRUE]
    /\ empty = [v \in Vertices |-> FALSE]
    /\ component_id = [v \in Vertices |-> v]
    /\ wcc_pc = "start1"
    /\ vec = [v \in Vertices |-> 0]
    /\ received = [v \in Vertices |-> {}]
    /\ n_sent = [v \in Vertices |-> 0]
    /\ n_rom = [v \in Vertices |-> 0]
    /\ n_deg = [v \in Vertices |-> 0]
    /\ cast = [v \in Vertices |-> INVALID_VERTEX_ID]

\* enum overlap_stage_t, overlap.cpp:34-38.
CONSTRUCT_NEIGHBORS == "CONSTRUCT_NEIGHBORS"
COMP_OVERLAP == "COMP_OVERLAP"
\* "neighborhood = NULL", overlap.cpp:296; a pointer that is not NULL is the
\* one-element tuple of the vector it points to.
NULL == <<>>

\* No callback has read the record of another vertex.
RdInit == peeked = {}

\* The overlap program with no vertex handed to it.
OvIdle ==
    /\ overlap_stage = CONSTRUCT_NEIGHBORS
    /\ overlap_vertices = {}
    /\ neighborhood = [v \in Vertices |-> NULL]
    /\ ov_pc = "start1"
    /\ overlaps = {}

\* No active set has been handed to the scheduler.
SchIdle ==
    /\ sch_ids = <<>>
    /\ sch_pc = "idle"
    /\ sch_in = <<>>
    /\ sch_done = <<>>

\* No profile file is configured, the profiler never runs.
SigIdle ==
    /\ prof_file = FALSE
    /\ profiling = FALSE
    /\ flushed = FALSE

\* No call of unique_merge is followed.
UmIdle ==
    /\ um_in1 = <<>>
    /\ um_in2 = <<>>
    /\ um_id = 0
    /\ um_out = <<>>
    /\ um_ret = 0
    /\ um_pc = "idle"

NoExit == -1      \* exit() has not been called; a status is in 0..255

\* compute_min_kmeans is not called.
KmIdle ==
    /\ K = 0
    /\ NUM_ROWS = 0
    /\ MAX_ITERS = 0
    /\ km_init = "none"
    /\ dist_type = "eucl"
    /\ g_dist_type = "unset"
    /\ g_init_type = "unset"
    /\ iter = 0
    /\ km_pc = "idle"
    /\ km_em = 0
    /\ km_inits = 0
    /\ km_fatal = 0
    /\ km_exit = NoExit

\* The programs that do not take part in a run, and the history of reads.
AppIdle == RdInit /\ OvIdle /\ SchIdle /\ SigIdle /\ UmIdle /\ KmIdle

\* The same for the two library routines alone.
LibIdle == UmIdle /\ KmIdle

\* "size_t topK = 1", topK_scan_graph.cpp:302.
topK == 1

\* topK_scan_vertex() for every vertex of the index; main before its loops.
TkInit ==
    /\ has_local_scan = [v \in VertexIds |-> FALSE]
    /\ has_est = [v \in VertexIds |-> FALSE]
    /\ est_local = [v \in VertexIds |-> 0]
    /\ tk_pc = "stage1"
    /\ prev_topK_scan = 0
    /\ top = <<>>

(***************************************************************************)
(* global_max                                                              *)
(***************************************************************************)

\* global_max(): value = 0, lock initialised (free).
GmInit ==
    /\ value = 0
    /\ lock = NoThread
    /\ gm_pc = [t \in Threads |-> "idle"]
    /\ new_v = [t \in Threads |-> 0]
    /\ ret = [t \in Threads |-> FALSE]
    /\ gm_calls = 0
    /\ gm_init = 0
    /\ gm_epoch = 0
    /\ submitted = {}
    /\ records = <<>>
    /\ stale = [t \in Threads |-> 0]

\* A worker enters update(new_v) (called from finding_triangles_end).
GmCall(t, c) ==
    /\ gm_pc[t] = "idle"
    /\ gm_calls < MaxCalls
    /\ gm_pc' = [gm_pc EXCEPT ![t] = "fast"]
    /\ new_v' = [new_v EXCEPT ![t] = c]
    /\ ret' = [ret EXCEPT ![t] = FALSE]
    /\ gm_calls' = gm_calls + 1
    /\ submitted' = submitted \cup {c}
    /\ UNCHANGED gm_others
    /\ UNCHANGED <<value, lock, gm_init, gm_epoch, records, stale>>

\* line 80-81: the unlocked test "if (new_v <= value) return false".
GmFastPath(t) ==
    /\ gm_pc[t] = "fast"
    /\ stale' = [stale EXCEPT ![t] = value]
    /\ IF new_v[t] <= value
         THEN gm_pc' = [gm_pc EXCEPT ![t] = "idle"]
         ELSE gm_pc' = [gm_pc EXCEPT ![t] = "spin"]
    /\ UNCHANGED gm_others
    /\ UNCHANGED <<value, lock, new_v, ret, gm_calls, gm_init, gm_epoch,
                   submitted, records>>

\* line 84: pthread_spin_lock(&lock).
GmLock(t) ==
    /\ gm_pc[t] = "spin"
    /\ lock = NoThread
    /\ lock' = t
    /\ gm_pc' = [gm_pc EXCEPT ![t] = "locked"]
    /\ UNCHANGED gm_others
    /\ UNCHANGED <<value, new_v, ret, gm_calls, gm_init, gm_epoch,
                   submitted, records, stale>>

\* Variants of the locked test that a slip in update() would produce.
GmInstallsNoRecheck(c, cur) == TRUE
GmInstallsGe(c, cur) == c >= cur
GmInstallsNe(c, cur) == c # cur

\* line 85: the test repeated under the lock.
GmInstalls(c, cur) == c > cur

\* The locked block without "ret = true".
GmRecheckNoRet(t) ==
    /\ gm_pc[t] = "locked"
    /\ IF GmInstalls(new_v[t], value)
         THEN /\ value' = new_v[t]
              /\ records' = Append(records, new_v[t])
              /\ UNCHANGED ret
         ELSE UNCHANGED <<value, ret, records>>
    /\ gm_pc' = [gm_pc EXCEPT ![t] = "unlock"]
    /\ UNCHANGED gm_others
    /\ UNCHANGED <<lock, new_v, gm_calls, gm_init, gm_epoch, submitted, stale>>

\* line 85-88: "if (new_v > value) { value = new_v; ret = true; }".
GmRecheck(t) ==
    /\ gm_pc[t] = "locked"
    /\ IF GmInstalls(new_v[t], value)
         THEN /\ value' = new_v[t]
              /\ ret' = [ret EXCEPT ![t] = TRUE]
              /\ records' = Append(records, new_v[t])
         ELSE UNCHANGED <<value, ret, records>>
    /\ gm_pc' = [gm_pc EXCEPT ![t] = "unlock"]
    /\ UNCHANGED gm_others
    /\ UNCHANGED <<lock, new_v, gm_calls, gm_init, gm_epoch, submitted, stale>>

\* line 89-90: pthread_spin_unlock(&lock); return ret.
GmUnlock(t) ==
    /\ gm_pc[t] = "unlock"
    /\ lock' = NoThread
    /\ gm_pc' = [gm_pc EXCEPT ![t] = "idle"]
    /\ UNCHANGED gm_others
    /\ UNCHANGED <<value, new_v, ret, gm_calls, gm_init, gm_epoch,
                   submitted, records, stale>>

\* The driver's "max_scan = global_max(v)" (lines 390 and 415); it runs after
\* wait4complete, when no worker is inside update().
GmReset(v) ==
    /\ \A t \in Threads : gm_pc[t] = "idle"
    /\ gm_epoch < MaxResets
    /\ value' = v
    /\ lock' = NoThread
    /\ gm_init' = v
    /\ gm_epoch' = gm_epoch + 1
    /\ submitted' = {}
    /\ records' = <<>>
    /\ UNCHANGED gm_others
    /\ UNCHANGED <<gm_pc, new_v, ret, gm_calls, stale>>

GmNext ==
    \/ \E t \in Threads, c \in Values : GmCall(t, c)
    \/ \E t \in Threads : GmFastPath(t)
    \/ \E t \in Threads : GmLock(t)
    \/ \E t \in Threads : GmRecheck(t)
    \/ \E t \in Threads : GmUnlock(t)
    \/ \E v \in Values : GmReset(v)

InitGlobalMax ==
    /\ GmInit /\ ScInit /\ EngInit(Vertices, {}) /\ WccInit /\ TkInit /\ WkInit
    /\ AppIdle

SpecGlobalMax == InitGlobalMax /\ [][GmNext]_vars

GmAllReturned == \A t \in Threads : gm_pc[t] = "idle"

\* The step of thread t that leaves the unlocked test / the locked block.
GmFastStep(t) == gm_pc[t] = "fast" /\ gm_pc'[t] # "fast"
GmLockedStep(t) == gm_pc[t] = "locked" /\ gm_pc'[t] = "unlock"
GmUnlockStep(t) == gm_pc[t] = "unlock" /\ gm_pc'[t] = "idle"

\* C4 as stated: once every update() has returned, get() is the maximum of
\* the submitted candidates.  (Fails: the object may have been constructed
\* with a value above every candidate, line 74 and line 415.)
C4_FinalIsMaxOfCandidates ==
    (GmAllReturned /\ submitted # {}) => value = SetMax(submitted)

\* C4 amended: once every update() has returned, get() is the maximum of
\* the value the object was constructed with and all submitted candidates.
C4_FinalIsMaxWithInitial ==
    GmAllReturned => value = SetMax(submitted \cup {gm_init})

C4_Witness ==
    /\ GmAllReturned
    /\ gm_calls = MaxCalls
    /\ Cardinality(submitted) >= 2
    /\ value = SetMax(submitted)
    /\ value > gm_init

\* C5: update() sets ret (and so returns true) exactly when it installs its
\* candidate, it installs exactly when the candidate is strictly greater
\* than the value read inside the critical section, a call that leaves on
\* the unlocked test installs nothing and returns false, and the installed
\* candidates in lock order are strictly increasing.
C5_TrueIffInstalledStrictlyGreater ==
    /\ [](\A i \in 1..Len(records) :
            /\ records[i] > gm_init
            /\ \A j \in 1..Len(records) : i < j => records[i] < records[j])
    /\ [][\A t \in Threads :
            /\ GmLockedStep(t) =>
                  /\ ret'[t] <=> (new_v[t] > value)
                  /\ ret'[t] <=> (value' = new_v[t] /\ value' # value)
                  /\ records' = IF ret'[t] THEN Append(records, new_v[t])
                                          ELSE records
            /\ GmFastStep(t) =>
                  /\ value' = value /\ records' = records
                  /\ gm_pc'[t] = "idle" => ~ret'[t]
            /\ GmUnlockStep(t) => ret'[t] = ret[t] /\ value' = value]_vars

C5_Witness ==
    /\ Len(records) >= 2
    /\ \E t \in Threads : gm_pc[t] = "idle" /\ ret[t] /\ value = new_v[t]
    /\ \E t \in Threads : gm_pc[t] = "unlock" /\ ~ret[t] /\ new_v[t] = value

\* C6: between driver resets the value read by get() never decreases.
C6_NeverDecreasesBetweenResets ==
    [][gm_epoch' = gm_epoch => value' >= value]_vars

C6_Witness ==
    /\ Len(records) >= 2
    /\ \E t \in Threads : gm_pc[t] = "unlock" /\ new_v[t] < value

\* C7: an update() whose candidate is not strictly greater than the value
\* current at its test (the unlocked one, or the one under the lock after a
\* stale unlocked read) leaves the value unchanged and returns false.
C7_NonImprovingHasNoEffect ==
    [][\A t \in Threads :
         /\ (GmLockedStep(t) /\ new_v[t] <= value) =>
               value' = value /\ ~ret'[t]
         /\ (GmFastStep(t) /\ new_v[t] <= value) =>
               value' = value /\ ~ret'[t] /\ gm_pc'[t] = "idle"
         /\ (GmUnlockStep(t) /\ ~ret[t]) => value' = value /\ ~ret'[t]]_vars

\* A thread passed the unlocked test on a stale smaller value, another
\* thread raised the value first, and the call left the value alone.
C7_Witness ==
    \E t \in Threads :
        /\ gm_pc[t] = "unlock"
        /\ stale[t] < new_v[t]
        /\ new_v[t] <= value
        /\ ~ret[t]

(***************************************************************************)
(* scan_collection                                                         *)
(***************************************************************************)
\* The comparator with the test reversed.
greaterReversed(s1, s2) == s1[2] < s2[2]

\* class greater, line 109-114: s1.second > s2.second.
greater(s1, s2) == s1[2] > s2[2]

\* A sequence is ordered by greater when no later element goes before an
\* earlier one.
IsOrdered(s) ==
    \A i \in 1..Len(s) : \A j \in 1..Len(s) : i < j => ~greater(s[j], s[i])

\* std::sort(scans.begin(), scans.end(), greater()), line 128: some ordered
\* permutation of the vector (the order of equal scans is unspecified).
SortResults(s) ==
    {r \in {[i \in 1..Len(s) |-> s[f[i]]] : f \in Permutations(1..Len(s))} :
        IsOrdered(r)}

\* A worker (or the driver) enters get(idx), add(id, scan) or get_size().
ScCallGet(t, idx) ==
    /\ sc_pc[t] = "idle"
    /\ sc_pc' = [sc_pc EXCEPT ![t] = "g_spin"]
    /\ sc_arg' = [sc_arg EXCEPT ![t] = idx]
    /\ UNCHANGED <<sorted, scans, sc_lock, sc_ret, sc_calls, added>>
    /\ UNCHANGED sc_others

ScCallAdd(t, scan) ==
    /\ sc_pc[t] = "idle"
    /\ sc_calls < MaxScans
    /\ sc_pc' = [sc_pc EXCEPT ![t] = "a_spin"]
    /\ sc_arg' = [sc_arg EXCEPT ![t] = <<sc_calls, scan>>]
    /\ sc_calls' = sc_calls + 1
    /\ UNCHANGED <<sorted, scans, sc_lock, sc_ret, added>>
    /\ UNCHANGED sc_others

ScCallSize(t) ==
    /\ sc_pc[t] = "idle"
    /\ sc_pc' = [sc_pc EXCEPT ![t] = "s_spin"]
    /\ UNCHANGED <<sorted, scans, sc_lock, sc_arg, sc_ret, sc_calls, added>>
    /\ UNCHANGED sc_others

\* Thread t is between pthread_spin_lock and pthread_spin_unlock.
ScInside(t) ==
    sc_pc[t] \in {"g_sort", "g_read", "g_unlock", "a_clear", "a_push",
                  "a_unlock", "s_read", "s_unlock"}

\* A lock that is taken whether or not it is free.
ScLockNoWait(t) ==
    /\ sc_pc[t] \in {"g_spin", "a_spin", "s_spin"}
    /\ sc_lock' = t
    /\ sc_pc' = [sc_pc EXCEPT ![t] =
                    CASE sc_pc[t] = "g_spin" -> "g_sort"
                      [] sc_pc[t] = "a_spin" -> "a_clear"
                      [] sc_pc[t] = "s_spin" -> "s_read"]
    /\ UNCHANGED <<sorted, scans, sc_arg, sc_ret, sc_calls, added>>
    /\ UNCHANGED sc_others

\* pthread_spin_lock(&lock), lines 125, 137 and 144.
ScLock(t) ==
    /\ sc_pc[t] \in {"g_spin", "a_spin", "s_spin"}
    /\ sc_lock = NoThread
    /\ sc_lock' = t
    /\ sc_pc' = [sc_pc EXCEPT ![t] =
                    CASE sc_pc[t] = "g_spin" -> "g_sort"
                      [] sc_pc[t] = "a_spin" -> "a_clear"
                      [] sc_pc[t] = "s_spin" -> "s_read"]
    /\ UNCHANGED <<sorted, scans, sc_arg, sc_ret, sc_calls, added>>
    /\ UNCHANGED sc_others

\* get, line 126-130: "if (!sorted) { std::sort(...); sorted = true; }".
ScGetSort(t) ==
    /\ sc_pc[t] = "g_sort"
    /\ IF ~sorted
         THEN /\ scans' \in SortResults(scans)
              /\ sorted' = TRUE
         ELSE UNCHANGED <<sorted, scans>>
    /\ sc_pc' = [sc_pc EXCEPT ![t] = "g_read"]
    /\ UNCHANGED <<sc_lock, sc_arg, sc_ret, sc_calls, added>>
    /\ UNCHANGED sc_others

\* get, line 131: "vertex_scan ret = scans[idx]".
ScGetRead(t) ==
    /\ sc_pc[t] = "g_read"
    /\ IF sc_arg[t] < Len(scans)
         THEN /\ sc_ret' = [sc_ret EXCEPT ![t] = scans[sc_arg[t] + 1]]
              /\ sc_pc' = [sc_pc EXCEPT ![t] = "g_unlock"]
         ELSE \/ /\ \E p \in ScanPairs : sc_ret' = [sc_ret EXCEPT ![t] = p]
                 /\ sc_pc' = [sc_pc EXCEPT ![t] = "g_unlock"]
              \/ /\ sc_ret' = [sc_ret EXCEPT ![t] = Fault]
                 /\ sc_pc' = [u \in Threads |-> Fault]
    /\ UNCHANGED <<sorted, scans, sc_lock, sc_arg, sc_calls, added>>
    /\ UNCHANGED sc_others

\* The history with pair p put in, kept in the order of the ids.
Record(h, p) ==
    LET before == SelectSeq(h, LAMBDA q : q[1] <= p[1])
        after == SelectSeq(h, LAMBDA q : q[1] > p[1])
    IN before \o <<p>> \o after

\* add without "sorted = false".
ScAddClearSkipped(t) ==
    /\ sc_pc[t] = "a_clear"
    /\ sc_pc' = [sc_pc EXCEPT ![t] = "a_push"]
    /\ UNCHANGED <<sorted, scans, sc_lock, sc_arg, sc_ret, sc_calls, added>>
    /\ UNCHANGED sc_others

\* add, line 138: "sorted = false".
ScAddClear(t) ==
    /\ sc_pc[t] = "a_clear"
    /\ sorted' = FALSE
    /\ sc_pc' = [sc_pc EXCEPT ![t] = "a_push"]
    /\ UNCHANGED <<scans, sc_lock, sc_arg, sc_ret, sc_calls, added>>
    /\ UNCHANGED sc_others

\* add, line 139: "scans.push_back(vertex_scan(id, scan))". A push_back
\* while another thread is at the vector is a data race: the element may be
\* stored, lost or stored twice.
ScAddPush(t) ==
    /\ sc_pc[t] = "a_push"
    /\ IF \E u \in Threads \ {t} : ScInside(u)
         THEN scans' \in {Append(scans, sc_arg[t]), scans,
                          Append(Append(scans, sc_arg[t]), sc_arg[t])}
         ELSE scans' = Append(scans, sc_arg[t])
    /\ added' = Record(added, sc_arg[t])
    /\ sc_pc' = [sc_pc EXCEPT ![t] = "a_unlock"]
    /\ UNCHANGED <<sorted, sc_lock, sc_arg, sc_ret, sc_calls>>
    /\ UNCHANGED sc_others

\* get_size, line 145: "size_t ret = scans.size()".
ScSizeRead(t) ==
    /\ sc_pc[t] = "s_read"
    /\ sc_ret' = [sc_ret EXCEPT ![t] = Len(scans)]
    /\ sc_pc' = [sc_pc EXCEPT ![t] = "s_unlock"]
    /\ UNCHANGED <<sorted, scans, sc_lock, sc_arg, sc_calls, added>>
    /\ UNCHANGED sc_others

\* pthread_spin_unlock(&lock) and return, lines 132, 140 and 146.
ScUnlock(t) ==
    /\ sc_pc[t] \in {"g_unlock", "a_unlock", "s_unlock"}
    /\ sc_lock' = NoThread
    /\ sc_pc' = [sc_pc EXCEPT ![t] = "idle"]
    /\ sc_arg' = [sc_arg EXCEPT ![t] = 0]
    /\ sc_ret' = [sc_ret EXCEPT ![t] = 0]
    /\ UNCHANGED <<sorted, scans, sc_calls, added>>
    /\ UNCHANGED sc_others

ScNext ==
    \/ \E t \in Threads, idx \in 0..(MaxScans - 1) : ScCallGet(t, idx)
    \/ \E t \in Threads, scan \in Scores : ScCallAdd(t, scan)
    \/ \E t \in Threads : ScCallSize(t)
    \/ \E t \in Threads : ScLock(t)
    \/ \E t \in Threads : ScGetSort(t)
    \/ \E t \in Threads : ScGetRead(t)
    \/ \E t \in Threads : ScAddClear(t)
    \/ \E t \in Threads : ScAddPush(t)
    \/ \E t \in Threads : ScSizeRead(t)
    \/ \E t \in Threads : ScUnlock(t)

InitScans ==
    /\ GmInit /\ ScInit /\ EngInit(Vertices, {}) /\ WccInit /\ TkInit /\ WkInit
    /\ AppIdle

SpecScans == InitScans /\ [][ScNext]_vars

\* The scores of a sequence of pairs that are greater than (at least) v.
NumGreater(s, v) == Cardinality({i \in 1..Len(s) : s[i][2] > v})
NumAtLeast(s, v) == Cardinality({i \in 1..Len(s) : s[i][2] >= v})

\* The k-th (0-indexed) score of s in descending order, by counting.
KthLargest(s, k) ==
    CHOOSE v \in {s[i][2] : i \in 1..Len(s)} :
        NumGreater(s, v) <= k /\ k < NumAtLeast(s, v)

\* C8: a get(k) with 0 <= k < size returns an entry whose score is the k-th
\* element of all added scores in descending order.
C8_GetReturnsKthLargest ==
    \A t \in Threads :
        (sc_pc[t] = "g_unlock" /\ sc_arg[t] < Len(added)) =>
            /\ sc_ret[t] \in ScanPairs
            /\ sc_ret[t][2] = KthLargest(added, sc_arg[t])

\* Two adds with different scans (the smaller one under the smaller id) and
\* a get(1) that returns the smaller one.
C8_Witness ==
    \E t \in Threads :
        /\ sc_pc[t] = "g_unlock"
        /\ Len(added) = 2
        /\ added[1][2] < added[2][2]
        /\ sc_arg[t] = 1
        /\ sc_ret[t] = added[1]

\* The two sequences hold the same pairs, each as often.
SameBag(s1, s2) ==
    /\ Len(s1) = Len(s2)
    /\ \A p \in ScanPairs :
          Cardinality({i \in 1..Len(s1) : s1[i] = p})
            = Cardinality({i \in 1..Len(s2) : s2[i] = p})

IsDescending(s) ==
    \A i \in 1..Len(s) : \A j \in 1..Len(s) : i < j => s[i][2] >= s[j][2]

\* C9: when the lock is free and sorted is true, scans is in descending score
\* order; an add that has pushed has left the flag false; and a get reads
\* from a descending vector that holds every pushed element.
C9_SortedFlagMeansDescending ==
    /\ (sc_lock = NoThread /\ sorted) => IsDescending(scans)
    /\ \A t \in Threads :
          /\ sc_pc[t] = "a_unlock" => ~sorted
          /\ sc_pc[t] \in {"g_read", "g_unlock"} =>
                sorted /\ IsDescending(scans) /\ SameBag(scans, added)

\* The pair with the largest id carries the largest scan, it stands first
\* in the vector and a get(0) returns it.
C9_Witness ==
    \E t \in Threads :
        /\ sc_pc[t] = "g_unlock"
        /\ Len(added) >= 2
        /\ added[Len(added)][2] > added[1][2]
        /\ scans[1] = added[Len(added)]
        /\ sc_arg[t] = 0
        /\ sc_ret[t] = added[Len(added)]

(***************************************************************************)
(* graph_engine: the superstep loop                                        *)
(***************************************************************************)

\* remove_small_filter::keep with the comparison turned round.
RemoveSmallKeepReversed(min, v) == NumEdges(edges, v) <= min

\* remove_small_filter::keep, topK_scan_graph.cpp:369-372.
RemoveSmallKeep(min, v) == NumEdges(edges, v) >= min

\* remove_small_scan_filter::keep, topK_scan_graph.cpp:401-405.
RemoveSmallScanKeep(min, v) ==
    LET num_local_edges == NumEdges(edges, v)
    IN num_local_edges * num_local_edges >= min

\* filter->keep(v) for the filter handed to start().
EngKeeps(f, v) ==
    CASE f.kind = "none" -> TRUE
      [] f.kind = "remove_small" -> RemoveSmallKeep(f.min, v)
      [] f.kind = "remove_small_scan" -> RemoveSmallScanKeep(f.min, v)

\* start_all() / start(filter): the first active set is seeded with the
\* vertices of S the filter keeps and the first superstep begins.
EngStart(S, f) ==
    /\ flt' = f
    /\ active' = {v \in S : EngKeeps(f, v)}
    /\ next_active' = {}
    /\ level' = 0
    /\ eng_phase' = "run"
    /\ ran' = {}

\* request_vertices(&id, 1) / request_num_edges(&id, 1) by vertex v for its
\* own id: the request is accepted; a second request for the same vertex in
\* flight is folded into the first.
EngRequest(v) ==
    /\ io' = io \cup {v}
    /\ n_req' = IF v \in io THEN n_req ELSE [n_req EXCEPT ![v] = @ + 1]

\* run() dispatched to a vertex that is not scheduled.
EngMayRunUnscheduled(v) == eng_phase = "run"

\* The engine may dispatch run() to v: v is scheduled in the running
\* superstep.
EngMayRun(v) == eng_phase = "run" /\ v \in active

\* The engine may resolve the request of v and re-enter v with its data.
EngMayResolve(v) == eng_phase = "run" /\ v \in io

\* The engine may hand message m to run_on_message: only between supersteps.
EngMayDeliverEarly(m) == eng_phase \in {"run", "deliver"} /\ BagIn(m, msgs)
EngMayDeliver(m) == eng_phase = "deliver" /\ BagIn(m, msgs)

\* The barrier taken with requests still in flight.
EngBarrierNoIoWait ==
    /\ eng_phase = "run"
    /\ active = {}
    /\ eng_phase' = "deliver"
    /\ UNCHANGED <<verts, edges, level, active, next_active, io, nb_io, flt, msgs,
                   n_req, n_cb, ran>>
    /\ UNCHANGED eng_others

\* The superstep ends when every scheduled vertex has run and every request
\* is resolved; the messages sent in it are then delivered.
EngBarrier ==
    /\ eng_phase = "run"
    /\ active = {}
    /\ io = {}
    /\ nb_io = {}
    /\ eng_phase' = "deliver"
    /\ UNCHANGED <<verts, edges, level, active, next_active, io, nb_io, flt, msgs,
                   n_req, n_cb, ran>>
    /\ UNCHANGED eng_others

\* All messages are delivered: the vertices they activated form the next
\* superstep, or, with none, the run is quiescent.
EngNextLevel ==
    /\ eng_phase = "deliver"
    /\ msgs = EmptyBag
    /\ IF next_active = {}
         THEN /\ eng_phase' = "quiescent"
              /\ UNCHANGED <<level, active, next_active>>
         ELSE /\ eng_phase' = "run"
              /\ active' = next_active
              /\ next_active' = {}
              /\ level' = level + 1
    /\ UNCHANGED <<verts, edges, io, nb_io, flt, msgs, n_req, n_cb, ran>>
    /\ UNCHANGED eng_others

(***************************************************************************)
(* wcc_vertex and compute_wcc                                              *)
(***************************************************************************)

\* A message of the run: component_message(id) on its way to dst, sent in
\* superstep lvl.
Msg(dst, id, lvl) == [dst |-> dst, id |-> id, lvl |-> lvl]

Min(a, b) == IF a < b THEN a ELSE b

\* The count of messages sent to each vertex once v has sent one to every
\* entry of its neighbor sequence (get_neigh_seq_it(BOTH_EDGES, 0, num_dests),
\* line 116-117).
Addressed(g, v) ==
    [u \in Vertices |->
        n_sent[u] + Cardinality({e \in g : e = <<v, u>> \/ e = <<u, v>>})]

\* A multicast that hands a destination one message however often it stands
\* in the neighbor sequence.
MulticastShared(g, v, id, lvl) ==
    SetToBag({Msg(u, id, lvl) : u \in DOMAIN NeighSeq(g, v)})

\* A multicast that reaches every vertex of the graph, neighbor or not.
MulticastToAll(g, v, id, lvl) ==
    SetToBag({Msg(u, id, lvl) : u \in Vertices})

\* prog.multicast_msg(it, msg), line 116-119: one message per entry of the
\* neighbor sequence of v.
Multicast(g, v, id, lvl) ==
    LET seq == NeighSeq(g, v)
    IN [m \in {Msg(u, id, lvl) : u \in DOMAIN seq} |-> seq[m.dst]]

\* compute_wcc, line 165-166 and 176-177: set the stage and start_all().
WccStart ==
    /\ wcc_pc \in {"start1", "start2"}
    /\ wcc_stage' = IF wcc_pc = "start1" THEN FIND_COMPONENTS ELSE REMOVE_EMPTY
    /\ wcc_pc' = IF wcc_pc = "start1" THEN "wait1" ELSE "wait2"
    /\ EngStart(verts, NoFilter)
    /\ UNCHANGED <<verts, edges, io, nb_io, msgs, n_req, n_cb>>
    /\ UNCHANGED <<updated, empty, component_id, vec, received,
                   n_sent, n_rom, cast, n_deg>>
    /\ UNCHANGED wcc_others

\* compute_wcc going on without the call of wait4complete().
WccWaitSkipped ==
    /\ wcc_pc \in {"wait1", "wait2"}
    /\ wcc_pc' = IF wcc_pc = "wait1" THEN "start2" ELSE "query"
    /\ UNCHANGED <<wcc_stage, updated, empty, component_id, vec, received,
                   n_sent, n_rom, cast, n_deg>>
    /\ UNCHANGED eng_vars
    /\ UNCHANGED wcc_others

\* compute_wcc, line 167 and 178: wait4complete() returns at quiescence.
WccWait ==
    /\ wcc_pc \in {"wait1", "wait2"}
    /\ eng_phase = "quiescent"
    /\ wcc_pc' = IF wcc_pc = "wait1" THEN "start2" ELSE "query"
    /\ UNCHANGED <<wcc_stage, updated, empty, component_id, vec, received,
                   n_sent, n_rom, cast, n_deg>>
    /\ UNCHANGED eng_vars
    /\ UNCHANGED wcc_others

\* run() asking for the edge list whether or not updated is set.
WccRunAlwaysRequests(v) ==
    /\ EngMayRun(v)
    /\ active' = active \ {v}
    /\ ran' = ran \cup {v}
    /\ EngRequest(v)
    /\ updated' = [updated EXCEPT ![v] = FALSE]
    /\ UNCHANGED <<verts, edges, eng_phase, level, next_active, nb_io, flt,
                   msgs, n_cb>>
    /\ UNCHANGED <<wcc_stage, empty, component_id, wcc_pc, vec, received,
                   n_sent, n_rom, cast, n_deg>>
    /\ UNCHANGED wcc_others

\* wcc_vertex::run(vertex_program &), line 83-94.
WccRun(v) ==
    /\ EngMayRun(v)
    /\ active' = active \ {v}
    /\ ran' = ran \cup {v}
    /\ IF wcc_stage = FIND_COMPONENTS
         THEN /\ IF updated[v]
                   THEN /\ EngRequest(v)
                        /\ updated' = [updated EXCEPT ![v] = FALSE]
                   ELSE UNCHANGED <<io, n_req, updated>>
              /\ UNCHANGED n_deg
         ELSE /\ EngRequest(v)
              /\ n_deg' = [n_deg EXCEPT ![v] = @ + 1]
              /\ UNCHANGED updated
    /\ UNCHANGED <<verts, edges, eng_phase, level, next_active, nb_io, flt, msgs,
                   n_cb>>
    /\ UNCHANGED <<wcc_stage, empty, component_id, wcc_pc, vec, received,
                   n_sent, n_rom, cast>>
    /\ UNCHANGED wcc_others

\* The answer to a request multicasting the label in REMOVE_EMPTY as well.
WccDataMulticastsAlways(v) ==
    /\ EngMayResolve(v)
    /\ io' = io \ {v}
    /\ n_cb' = [n_cb EXCEPT ![v] = @ + 1]
    /\ msgs' = msgs (+) Multicast(edges, v, component_id[v], level)
    /\ n_sent' = Addressed(edges, v)
    /\ cast' = [cast EXCEPT ![v] = Min(@, component_id[v])]
    /\ empty' = IF wcc_stage = FIND_COMPONENTS
                  THEN empty
                  ELSE [empty EXCEPT ![v] = (NumEdges(edges, v) = 0)]
    /\ UNCHANGED <<verts, edges, eng_phase, level, active, next_active, nb_io, flt,
                   n_req, ran>>
    /\ UNCHANGED <<wcc_stage, updated, component_id, wcc_pc, vec, received,
                   n_rom, n_deg>>
    /\ UNCHANGED wcc_others

\* wcc_vertex::run(vertex_program &, const page_vertex &), line 112-120, in
\* FIND_COMPONENTS; run_on_num_edges, line 106-109, in REMOVE_EMPTY.
WccData(v) ==
    /\ EngMayResolve(v)
    /\ io' = io \ {v}
    /\ n_cb' = [n_cb EXCEPT ![v] = @ + 1]
    /\ IF wcc_stage = FIND_COMPONENTS
         THEN /\ msgs' = msgs (+) Multicast(edges, v, component_id[v], level)
              /\ n_sent' = Addressed(edges, v)
              /\ cast' = [cast EXCEPT ![v] = Min(@, component_id[v])]
              /\ UNCHANGED empty
         ELSE /\ empty' = [empty EXCEPT ![v] = (NumEdges(edges, v) = 0)]
              /\ UNCHANGED <<msgs, n_sent, cast>>
    /\ UNCHANGED <<verts, edges, eng_phase, level, active, next_active, nb_io, flt,
                   n_req, ran>>
    /\ UNCHANGED <<wcc_stage, updated, component_id, wcc_pc, vec, received,
                   n_rom, n_deg>>
    /\ UNCHANGED wcc_others

\* run_on_message with the comparison turned round.
WccAdoptsGreater(id, cid) == id > cid

\* run_on_message taking a label that is not smaller.
WccAdoptsLe(id, cid) == id <= cid

\* run_on_message, line 100: "if (msg.get_id() < component_id)".
WccAdopts(id, cid) == id < cid

\* A delivery that leaves its destination out of the next superstep.
WccDeliverNoActivate(m) ==
    /\ EngMayDeliver(m)
    /\ msgs' = msgs (-) SetToBag({m})
    /\ IF WccAdopts(m.id, component_id[m.dst])
         THEN /\ updated' = [updated EXCEPT ![m.dst] = TRUE]
              /\ component_id' = [component_id EXCEPT ![m.dst] = m.id]
         ELSE UNCHANGED <<updated, component_id>>
    /\ received' = [received EXCEPT ![m.dst] = @ \cup {m.id}]
    /\ n_rom' = [n_rom EXCEPT ![m.dst] = @ + 1]
    /\ UNCHANGED <<verts, edges, eng_phase, level, active, next_active, io,
                   nb_io, flt, n_req, n_cb, ran>>
    /\ UNCHANGED <<wcc_stage, empty, wcc_pc, vec, n_sent, cast, n_deg>>
    /\ UNCHANGED wcc_others

\* wcc_vertex::run_on_message, line 98-104; the message activates its
\* destination (component_message is built with activate = true, line 50).
WccDeliver(m) ==
    /\ EngMayDeliver(m)
    /\ msgs' = msgs (-) SetToBag({m})
    /\ next_active' = next_active \cup {m.dst}
    /\ IF WccAdopts(m.id, component_id[m.dst])
         THEN /\ updated' = [updated EXCEPT ![m.dst] = TRUE]
              /\ component_id' = [component_id EXCEPT ![m.dst] = m.id]
         ELSE UNCHANGED <<updated, component_id>>
    /\ received' = [received EXCEPT ![m.dst] = @ \cup {m.id}]
    /\ n_rom' = [n_rom EXCEPT ![m.dst] = @ + 1]
    /\ UNCHANGED <<verts, edges, eng_phase, level, active, io, nb_io, flt, n_req,
                   n_cb, ran>>
    /\ UNCHANGED <<wcc_stage, empty, wcc_pc, vec, n_sent, cast, n_deg>>
    /\ UNCHANGED wcc_others

\* save_cid_query::run, line 133-139, on every vertex (query_on_all, line
\* 180); compute_wcc returns vec.
WccQuery ==
    /\ wcc_pc = "query"
    /\ vec' = [v \in Vertices |->
                 IF ~empty[v] THEN component_id[v] ELSE INVALID_VERTEX_ID]
    /\ wcc_pc' = "done"
    /\ UNCHANGED <<wcc_stage, updated, empty, component_id, received,
                   n_sent, n_rom, cast, n_deg>>
    /\ UNCHANGED eng_vars
    /\ UNCHANGED wcc_others

WccNext ==
    \/ WccStart
    \/ WccWait
    \/ \E v \in Vertices : WccRun(v)
    \/ \E v \in Vertices : WccData(v)
    \/ EngBarrier
    \/ \E m \in BagToSet(msgs) : WccDeliver(m)
    \/ EngNextLevel
    \/ WccQuery

InitWcc ==
    /\ GmInit /\ ScInit /\ WccInit /\ TkInit /\ WkInit /\ AppIdle
    /\ \E g \in Graphs : EngInit(Vertices, g)

SpecWcc == InitWcc /\ [][WccNext]_vars

\* The driver and the worker threads keep running: a step that stays possible
\* is taken.
SpecWccFair == SpecWcc /\ WF_vars(WccNext)

\* C1: a message sent in superstep k is handed to run_on_message only after
\* superstep k has ended for all vertices (nothing scheduled, no request in
\* flight) and before superstep k+1 is dispatched: while a superstep runs,
\* every pending message was sent in it, and each delivery is of a message of
\* the superstep that has just ended.
C1_DeliveryBetweenSupersteps ==
    /\ [](/\ eng_phase = "run" =>
                \A m \in BagToSet(msgs) : m.lvl = level
          /\ eng_phase \in {"idle", "quiescent"} => msgs = EmptyBag)
    /\ [][\A m \in BagToSet(msgs) :
            CopiesIn(m, msgs') < CopiesIn(m, msgs) =>
                /\ eng_phase = "deliver"
                /\ active = {} /\ io = {}
                /\ m.lvl = level
                /\ level' = level]_vars

\* A message of superstep 1 is being delivered after one of its fellows.
C1_Witness ==
    /\ eng_phase = "deliver"
    /\ level = 1
    /\ msgs # EmptyBag
    /\ next_active # {}

RECURSIVE Closure(_, _)
Closure(g, S) ==
    LET T == S \cup UNION {InNeighbors(g, u) \cup OutNeighbors(g, u) : u \in S}
    IN IF T = S THEN S ELSE Closure(g, T)

SetMin(S) == CHOOSE x \in S : \A y \in S : x <= y

\* C10: when compute_wcc returns, a vertex with an edge carries the smallest
\* id of its weakly connected component and a vertex without edges carries
\* INVALID_VERTEX_ID.
C10_WccLabels ==
    wcc_pc = "done" =>
        \A v \in Vertices :
            vec[v] = IF NumEdges(edges, v) > 0
                       THEN SetMin(Closure(edges, {v}))
                       ELSE INVALID_VERTEX_ID

\* A component of more than one vertex beside a vertex without edges.
C10_Witness ==
    /\ wcc_pc = "done"
    /\ \E v \in Vertices : NumEdges(edges, v) = 0 /\ vec[v] = INVALID_VERTEX_ID
    /\ \E v \in Vertices : vec[v] < v

\* C11: whatever labels a vertex was handed, in whatever order, its
\* component_id is the smallest of its own id and the labels received; its
\* label never grows; a delivered label that is not smaller leaves
\* component_id and updated as they were, a smaller one is taken and sets
\* updated.
C11_LabelIsMinOfReceived ==
    /\ [](\A v \in Vertices : component_id[v] = SetMin({v} \cup received[v]))
    /\ [][/\ \A v \in Vertices : component_id'[v] <= component_id[v]
          /\ \A m \in BagToSet(msgs) :
                CopiesIn(m, msgs') < CopiesIn(m, msgs) =>
                    IF m.id < component_id[m.dst]
                      THEN /\ component_id'[m.dst] = m.id
                           /\ updated'[m.dst]
                      ELSE /\ component_id'[m.dst] = component_id[m.dst]
                           /\ updated'[m.dst] = updated[m.dst]]_vars

\* A vertex has been handed two labels or more, one of them larger than the
\* one it holds, which is smaller than its own id; it has run since and is
\* not marked updated.
C11_Witness ==
    \E v \in Vertices :
        /\ Cardinality(received[v]) >= 2
        /\ component_id[v] < v
        /\ \E l \in received[v] : l > component_id[v]
        /\ ~updated[v]
        /\ level >= 2

\* C12: the FIND_COMPONENTS run of every graph becomes quiescent; in it a
\* vertex asks for its edges only while updated is set (and clears it), it
\* multicasts only in answer to such a request, updated is set only together
\* with a strictly smaller label, and no label falls below 0.
C12_FindComponentsTerminates ==
    /\ <>(wcc_stage = FIND_COMPONENTS /\ eng_phase = "quiescent")
    /\ [](\A v \in Vertices : component_id[v] >= 0)
    /\ [][wcc_stage = FIND_COMPONENTS =>
            /\ \A v \in io' \ io : updated[v] /\ ~updated'[v]
            /\ msgs' # msgs /\ BagCardinality(msgs') > BagCardinality(msgs)
                  => \E v \in io \ io' : TRUE
            /\ \A v \in Vertices :
                  (updated'[v] /\ ~updated[v]) =>
                      component_id'[v] < component_id[v]]_vars

\* FIND_COMPONENTS has become quiescent after three supersteps or more, a
\* label having travelled over two edges.
C12_Witness ==
    /\ wcc_stage = FIND_COMPONENTS
    /\ eng_phase = "quiescent"
    /\ level >= 3
    /\ \E v \in Vertices : component_id[v] < v

(***************************************************************************)
(* The wcc run on the engine's worker threads: a callback takes time, and   *)
(* the workers execute callbacks side by side.                             *)
(***************************************************************************)

\* Any worker may take any vertex.
WkOwnsAny(t, v) == TRUE

\* The vertex index is partitioned over the worker threads, one partition a
\* worker: worker t executes the callbacks of the vertices of its partition.
WkOwns(t, v) == t = (v % NumThreads) + 1

\* Worker t is free to take a callback.
WkIdle(t) == cb[t] = NoCb

\* wcc_vertex::run, line 84-87: worker t enters run() of v, tests the stage
\* and updated and issues the request.
WkRunBegin(t, v) ==
    /\ WkIdle(t)
    /\ WkOwns(t, v)
    /\ EngMayRun(v)
    /\ active' = active \ {v}
    /\ ran' = ran \cup {v}
    /\ IF wcc_stage = FIND_COMPONENTS => updated[v]
         THEN EngRequest(v)
         ELSE UNCHANGED <<io, n_req>>
    /\ cb' = [cb EXCEPT ![t] =
                 [v |-> v, at |-> "run", id |-> 0,
                  hit |-> (wcc_stage = FIND_COMPONENTS /\ updated[v])]]
    /\ n_deg' = IF wcc_stage = FIND_COMPONENTS
                  THEN n_deg ELSE [n_deg EXCEPT ![v] = @ + 1]
    /\ UNCHANGED <<verts, edges, eng_phase, level, next_active, nb_io, flt,
                   msgs, n_cb>>
    /\ UNCHANGED <<wcc_stage, updated, empty, component_id, wcc_pc, vec,
                   received, n_sent, n_rom, cast>>
    /\ UNCHANGED <<gm_vars, sc_vars, tk_vars, rd_vars, app_vars>>

\* wcc_vertex::run, line 88: "updated = false" after the request; run()
\* returns.
WkRunEnd(t) ==
    /\ cb[t].at = "run"
    /\ updated' = IF cb[t].hit THEN [updated EXCEPT ![cb[t].v] = FALSE]
                               ELSE updated
    /\ cb' = [cb EXCEPT ![t] = NoCb]
    /\ UNCHANGED <<wcc_stage, empty, component_id, wcc_pc, vec, received,
                   n_sent, n_rom, cast, n_deg>>
    /\ UNCHANGED <<eng_vars, gm_vars, sc_vars, tk_vars, rd_vars, app_vars>>

\* line 112-118 (or 106): worker t enters the data callback of v; the message
\* is built from component_id.
WkDataBegin(t, v) ==
    /\ WkIdle(t)
    /\ WkOwns(t, v)
    /\ EngMayResolve(v)
    /\ io' = io \ {v}
    /\ n_cb' = [n_cb EXCEPT ![v] = @ + 1]
    /\ cb' = [cb EXCEPT ![t] =
                 [v |-> v, at |-> "data", id |-> component_id[v],
                  hit |-> FALSE]]
    /\ UNCHANGED <<verts, edges, eng_phase, level, active, next_active, nb_io,
                   flt, msgs, n_req, ran>>
    /\ UNCHANGED <<wcc_vars, gm_vars, sc_vars, tk_vars, rd_vars, app_vars>>

\* line 119: the multicast, in FIND_COMPONENTS; line 108: "empty =
\* (num_edges == 0)", in REMOVE_EMPTY; the callback returns.
WkDataEnd(t) ==
    /\ cb[t].at = "data"
    /\ IF wcc_stage = FIND_COMPONENTS
         THEN /\ msgs' = msgs (+) Multicast(edges, cb[t].v, cb[t].id, level)
              /\ n_sent' = Addressed(edges, cb[t].v)
              /\ cast' = [cast EXCEPT ![cb[t].v] = Min(@, cb[t].id)]
              /\ UNCHANGED empty
         ELSE /\ empty' = [empty EXCEPT
                             ![cb[t].v] = (NumEdges(edges, cb[t].v) = 0)]
              /\ UNCHANGED <<msgs, n_sent, cast>>
    /\ cb' = [cb EXCEPT ![t] = NoCb]
    /\ UNCHANGED <<verts, edges, eng_phase, level, active, next_active, io,
                   nb_io, flt, n_req, n_cb, ran>>
    /\ UNCHANGED <<wcc_stage, updated, component_id, wcc_pc, vec, received,
                   n_rom, n_deg>>
    /\ UNCHANGED <<gm_vars, sc_vars, tk_vars, rd_vars, app_vars>>

\* run_on_message, line 98-100: worker t enters run_on_message of the
\* destination of m and makes the test.
WkMsgBegin(t, m) ==
    /\ WkIdle(t)
    /\ WkOwns(t, m.dst)
    /\ EngMayDeliver(m)
    /\ msgs' = msgs (-) SetToBag({m})
    /\ next_active' = next_active \cup {m.dst}
    /\ cb' = [cb EXCEPT ![t] =
                 [v |-> m.dst, at |-> "msg", id |-> m.id,
                  hit |-> WccAdopts(m.id, component_id[m.dst])]]
    /\ UNCHANGED <<verts, edges, eng_phase, level, active, io, nb_io, flt,
                   n_req, n_cb, ran>>
    /\ UNCHANGED <<wcc_vars, gm_vars, sc_vars, tk_vars, rd_vars, app_vars>>

\* run_on_message writing component_id and leaving updated as it is.
WkMsgEndNoFlag(t) ==
    /\ cb[t].at = "msg"
    /\ IF cb[t].hit
         THEN /\ component_id' = [component_id EXCEPT ![cb[t].v] = cb[t].id]
              /\ UNCHANGED updated
         ELSE UNCHANGED <<updated, component_id>>
    /\ received' = [received EXCEPT ![cb[t].v] = @ \cup {cb[t].id}]
    /\ n_rom' = [n_rom EXCEPT ![cb[t].v] = @ + 1]
    /\ cb' = [cb EXCEPT ![t] = NoCb]
    /\ UNCHANGED <<wcc_stage, empty, wcc_pc, vec, n_sent, cast, n_deg>>
    /\ UNCHANGED <<eng_vars, gm_vars, sc_vars, tk_vars, rd_vars, app_vars>>

\* run_on_message, line 101-102: the two writes, when the test held; the
\* callback returns.
WkMsgEnd(t) ==
    /\ cb[t].at = "msg"
    /\ IF cb[t].hit
         THEN /\ updated' = [updated EXCEPT ![cb[t].v] = TRUE]
              /\ component_id' = [component_id EXCEPT ![cb[t].v] = cb[t].id]
         ELSE UNCHANGED <<updated, component_id>>
    /\ received' = [received EXCEPT ![cb[t].v] = @ \cup {cb[t].id}]
    /\ n_rom' = [n_rom EXCEPT ![cb[t].v] = @ + 1]
    /\ cb' = [cb EXCEPT ![t] = NoCb]
    /\ UNCHANGED <<wcc_stage, empty, wcc_pc, vec, n_sent, cast, n_deg>>
    /\ UNCHANGED <<eng_vars, gm_vars, sc_vars, tk_vars, rd_vars, app_vars>>

\* The barrier and the step to the next superstep wait for the callbacks in
\* execution.
WkBarrier == (\A t \in Threads : WkIdle(t)) /\ EngBarrier
WkNextLevel == (\A t \in Threads : WkIdle(t)) /\ EngNextLevel

WkNext ==
    \/ WccStart
    \/ WccWait
    \/ \E t \in Threads : \E v \in Vertices : WkRunBegin(t, v)
    \/ \E t \in Threads : WkRunEnd(t)
    \/ \E t \in Threads : \E v \in Vertices : WkDataBegin(t, v)
    \/ \E t \in Threads : WkDataEnd(t)
    \/ WkBarrier
    \/ \E t \in Threads : \E m \in BagToSet(msgs) : WkMsgBegin(t, m)
    \/ \E t \in Threads : WkMsgEnd(t)
    \/ WkNextLevel
    \/ WccQuery

\* The graphs the run on worker threads starts on.
WkGraphs == {g \in Graphs : Cardinality(g) <= MaxWkEdges}

InitWorkers ==
    /\ GmInit /\ ScInit /\ WccInit /\ TkInit /\ WkInit /\ AppIdle
    /\ \E g \in WkGraphs : EngInit(Vertices, g)

SpecWorkers == InitWorkers /\ [][WkNext]_vars

\* C20: no two worker threads are inside callbacks of one vertex at a time,
\* and updated, empty and component_id of a vertex are written only by the
\* one worker that is inside a callback of that vertex.
C20_SingleWriter ==
    /\ [](\A t1, t2 \in Threads :
            (t1 # t2 /\ ~WkIdle(t1) /\ ~WkIdle(t2)) => cb[t1].v # cb[t2].v)
    /\ [][\A v \in Vertices :
            (\/ updated'[v] # updated[v]
             \/ empty'[v] # empty[v]
             \/ component_id'[v] # component_id[v]) =>
                \E t \in Threads :
                    /\ cb[t].v = v
                    /\ cb'[t] = NoCb
                    /\ \A u \in Threads \ {t} : cb[u].v # v]_vars

\* Two workers are inside callbacks at a time, of two vertices; one of them
\* is about to write the label it was handed.
C20_Witness ==
    \E t1, t2 \in Threads :
        /\ t1 # t2
        /\ cb[t1].at = "msg" /\ cb[t1].hit
        /\ cb[t2].at = "msg"
        /\ cb[t1].v # cb[t2].v

(***************************************************************************)
(* topK_scan_vertex and main of topK_scan_graph.cpp                        *)
(***************************************************************************)

\* The neighbors of v on in- and out-edges, each once, v itself left out
\* (unique_merge with skip_self, line 241-250).
UniqueNeighbors(g, v) == (InNeighbors(g, v) \cup OutNeighbors(g, v)) \ {v}

\* The local scan of v: the edges among v and its neighbors (what
\* scan_vertex hands to finding_triangles_end as data->local_scan).
LocalScan(g, v) ==
    LET hood == UniqueNeighbors(g, v) \cup {v}
    IN Cardinality({e \in g : e[1] \in hood /\ e[2] \in hood})

RECURSIVE SumCapped(_, _, _)
SumCapped(g, S, cap) ==
    IF S = {} THEN 0
    ELSE LET u == CHOOSE x \in S : TRUE
         IN Min(NumEdges(g, u), cap) + SumCapped(g, S \ {u}, cap)

\* The estimate with the degree of a neighbor capped at the number of
\* neighbors, not at twice that number.
EstLocalScanCapN(g, v) ==
    LET all_neighbors == UniqueNeighbors(g, v)
        num_neighbors == Cardinality(all_neighbors)
        tot_edges == NumEdges(g, v)
                       + SumCapped(g, all_neighbors, num_neighbors)
    IN tot_edges \div 2

\* get_est_local_scan(graph, vertex), line 241-261, for a vertex without a
\* stored estimate.
EstLocalScan(g, v) ==
    LET all_neighbors == UniqueNeighbors(g, v)
        num_neighbors == Cardinality(all_neighbors)
        tot_edges == NumEdges(g, v)
                       + SumCapped(g, all_neighbors, num_neighbors * 2)
    IN tot_edges \div 2

\* get_est_local_scan, line 253-254: the records the loop reaches through
\* graph.get_vertex(all_neighbors[i]).
EstReads(g, v) == {<<v, u>> : u \in UniqueNeighbors(g, v)}

\* The stage-1 loop leaving one scan too early.
TkStage1OffByOne ==
    /\ tk_pc = "stage1"
    /\ IF Len(scans) < topK - 1
         THEN /\ EngStart(verts, SmallFilter(min_edges))
              /\ tk_pc' = "wait1"
         ELSE /\ tk_pc' = "stage2"
              /\ UNCHANGED <<flt, active, next_active, level, eng_phase, ran>>
    /\ UNCHANGED <<verts, edges, io, nb_io, msgs, n_req, n_cb>>
    /\ UNCHANGED <<has_local_scan, has_est, est_local, prev_topK_scan, top>>
    /\ UNCHANGED <<value, sorted, scans>>
    /\ UNCHANGED tk_others

\* main, line 381-384: the test of the stage-1 loop; start(filter) when it
\* holds.
TkStage1 ==
    /\ tk_pc = "stage1"
    /\ IF Len(scans) < topK
         THEN /\ EngStart(verts, SmallFilter(min_edges))
              /\ tk_pc' = "wait1"
         ELSE /\ tk_pc' = "stage2"
              /\ UNCHANGED <<flt, active, next_active, level, eng_phase, ran>>
    /\ UNCHANGED <<verts, edges, io, nb_io, msgs, n_req, n_cb>>
    /\ UNCHANGED <<has_local_scan, has_est, est_local, prev_topK_scan, top>>
    /\ UNCHANGED <<value, sorted, scans>>
    /\ UNCHANGED tk_others

\* main, line 384-390: wait4complete() returns; "max_scan = global_max(0)".
TkWait1 ==
    /\ tk_pc = "wait1"
    /\ eng_phase = "quiescent"
    /\ value' = 0
    /\ tk_pc' = "stage1"
    /\ UNCHANGED <<has_local_scan, has_est, est_local, prev_topK_scan, top>>
    /\ UNCHANGED <<sorted, scans>>
    /\ UNCHANGED eng_vars
    /\ UNCHANGED tk_others

\* What known_scans.get leaves in the vector: it sorts unless sorted is set.
GetSorts == IF sorted THEN {scans} ELSE SortResults(scans)

\* main, line 412-419: prev_topK_scan = known_scans.get(topK - 1).second;
\* max_scan = global_max(prev_topK_scan); start(remove_small_scan_filter).
TkStage2 ==
    /\ tk_pc = "stage2"
    /\ IF topK <= Len(scans)
         THEN \E srt \in GetSorts :
                /\ scans' = srt
                /\ sorted' = TRUE
                /\ prev_topK_scan' = srt[topK][2]
                /\ value' = srt[topK][2]
                /\ EngStart(verts, SmallScanFilter(srt[topK][2]))
                /\ tk_pc' = "wait2"
         ELSE /\ tk_pc' = Fault
              /\ UNCHANGED <<scans, sorted, prev_topK_scan, value>>
              /\ UNCHANGED <<flt, active, next_active, level, eng_phase, ran>>
    /\ UNCHANGED <<verts, edges, io, nb_io, msgs, n_req, n_cb>>
    /\ UNCHANGED <<has_local_scan, has_est, est_local, top>>
    /\ UNCHANGED tk_others

\* The stage-2 loop left after its first pass.
TkWait2OnePass ==
    /\ tk_pc = "wait2"
    /\ eng_phase = "quiescent"
    /\ \E srt \in GetSorts :
          /\ scans' = srt
          /\ sorted' = TRUE
          /\ tk_pc' = "report"
    /\ UNCHANGED <<has_local_scan, has_est, est_local, prev_topK_scan, top>>
    /\ UNCHANGED value
    /\ UNCHANGED eng_vars
    /\ UNCHANGED tk_others

\* The stage-2 loop going on while prev_topK_scan is not above the K-th
\* largest known scan.
TkWait2WhileNotAbove ==
    /\ tk_pc = "wait2"
    /\ eng_phase = "quiescent"
    /\ \E srt \in GetSorts :
          /\ scans' = srt
          /\ sorted' = TRUE
          /\ tk_pc' = IF prev_topK_scan <= srt[topK][2]
                        THEN "stage2" ELSE "report"
    /\ UNCHANGED <<has_local_scan, has_est, est_local, prev_topK_scan, top>>
    /\ UNCHANGED value
    /\ UNCHANGED eng_vars
    /\ UNCHANGED tk_others

\* main, line 420-430: wait4complete() returns; the loop goes on while
\* prev_topK_scan != known_scans.get(topK - 1).second.
TkWait2 ==
    /\ tk_pc = "wait2"
    /\ eng_phase = "quiescent"
    /\ \E srt \in GetSorts :
          /\ scans' = srt
          /\ sorted' = TRUE
          /\ tk_pc' = IF prev_topK_scan # srt[topK][2]
                        THEN "stage2" ELSE "report"
    /\ UNCHANGED <<has_local_scan, has_est, est_local, prev_topK_scan, top>>
    /\ UNCHANGED value
    /\ UNCHANGED eng_vars
    /\ UNCHANGED tk_others

\* main, line 432-443: ProfilerStop() with a profile file configured; the
\* top K known scans are printed.
TkReport ==
    /\ tk_pc = "report"
    /\ profiling' = IF prof_file THEN FALSE ELSE profiling
    /\ IF Len(scans) >= topK
         THEN \E srt \in GetSorts :
                /\ scans' = srt
                /\ sorted' = TRUE
                /\ top' = SubSeq(srt, 1, topK)
                /\ tk_pc' = "done"
         ELSE /\ tk_pc' = Fault
              /\ UNCHANGED <<scans, sorted, top>>
    /\ UNCHANGED <<has_local_scan, has_est, est_local, prev_topK_scan>>
    /\ UNCHANGED value
    /\ UNCHANGED eng_vars
    /\ UNCHANGED <<gm_rest, sc_rest, wcc_vars, wk_vars, rd_vars, ov_vars,
                   sch_vars, lib_vars, prof_file, flushed>>

\* run() skipping the request unless the degree squared exceeds max_scan.
TkRunStrict(v) ==
    /\ EngMayRun(v)
    /\ active' = active \ {v}
    /\ ran' = ran \cup {v}
    /\ LET num_local_edges == NumEdges(edges, v)
           req_itself ==
               IF has_local_scan[v] THEN FALSE
               ELSE IF has_est[v] THEN est_local[v] > value
               ELSE num_local_edges * num_local_edges > value
       IN IF req_itself THEN EngRequest(v) ELSE UNCHANGED <<io, n_req>>
    /\ UNCHANGED <<verts, edges, eng_phase, level, next_active, nb_io, flt,
                   msgs, n_cb>>
    /\ UNCHANGED tk_vars
    /\ UNCHANGED <<value, sorted, scans>>
    /\ UNCHANGED tk_others

\* run() without the test of has_local_scan().
TkRunNoSkip(v) ==
    /\ EngMayRun(v)
    /\ active' = active \ {v}
    /\ ran' = ran \cup {v}
    /\ LET num_local_edges == NumEdges(edges, v)
           req_itself ==
               IF has_est[v] THEN est_local[v] > value
               ELSE num_local_edges * num_local_edges >= value
       IN IF req_itself THEN EngRequest(v) ELSE UNCHANGED <<io, n_req>>
    /\ UNCHANGED <<verts, edges, eng_phase, level, next_active, nb_io, flt, msgs,
                   n_cb>>
    /\ UNCHANGED tk_vars
    /\ UNCHANGED <<value, sorted, scans>>
    /\ UNCHANGED tk_others

\* topK_scan_vertex::run(graph_engine &), line 193-212.
TkRun(v) ==
    /\ EngMayRun(v)
    /\ active' = active \ {v}
    /\ ran' = ran \cup {v}
    /\ LET num_local_edges == NumEdges(edges, v)
           req_itself ==
               IF has_local_scan[v] THEN FALSE
               ELSE IF has_est[v] THEN est_local[v] > value
               ELSE num_local_edges * num_local_edges >= value
       IN IF req_itself THEN EngRequest(v) ELSE UNCHANGED <<io, n_req>>
    /\ UNCHANGED <<verts, edges, eng_phase, level, next_active, nb_io, flt, msgs,
                   n_cb>>
    /\ UNCHANGED tk_vars
    /\ UNCHANGED <<value, sorted, scans>>
    /\ UNCHANGED tk_others

\* run_on_itself handing its estimate to max_scan and known_scans.
TkRunOnItselfAddsEst(v) ==
    /\ EngMayResolve(v)
    /\ io' = io \ {v}
    /\ n_cb' = [n_cb EXCEPT ![v] = @ + 1]
    /\ IF NumEdges(edges, v) = 0
         THEN UNCHANGED <<has_est, est_local, nb_io, value, sorted, scans>>
         ELSE LET est == IF has_est[v] THEN est_local[v]
                                       ELSE EstLocalScan(edges, v)
              IN /\ has_est' = [has_est EXCEPT ![v] = TRUE]
                 /\ est_local' = [est_local EXCEPT ![v] = est]
                 /\ nb_io' = IF est < value THEN nb_io ELSE nb_io \cup {v}
                 /\ value' = IF est > value THEN est ELSE value
                 /\ scans' = Append(scans, <<v, est>>)
                 /\ sorted' = FALSE
    /\ UNCHANGED <<verts, edges, eng_phase, level, active, next_active, flt,
                   msgs, n_req, ran>>
    /\ UNCHANGED <<has_local_scan, tk_pc, prev_topK_scan, top>>
    /\ UNCHANGED tk_others

\* topK_scan_vertex::run(graph, vertex) on its own edge list: run_on_itself,
\* line 264-274; scan_vertex::run_on_itself then asks for the neighbors.
TkRunOnItself(v) ==
    /\ EngMayResolve(v)
    /\ io' = io \ {v}
    /\ n_cb' = [n_cb EXCEPT ![v] = @ + 1]
    /\ IF NumEdges(edges, v) = 0
         THEN UNCHANGED <<has_est, est_local, nb_io, peeked>>
         ELSE LET est == IF has_est[v] THEN est_local[v]
                                       ELSE EstLocalScan(edges, v)
              IN /\ has_est' = [has_est EXCEPT ![v] = TRUE]
                 /\ est_local' = [est_local EXCEPT ![v] = est]
                 /\ peeked' = IF has_est[v] THEN peeked
                                ELSE peeked \cup EstReads(edges, v)
                 /\ nb_io' = IF est < value THEN nb_io ELSE nb_io \cup {v}
    /\ UNCHANGED <<verts, edges, eng_phase, level, active, next_active, flt, msgs,
                   n_req, ran>>
    /\ UNCHANGED <<has_local_scan, tk_pc, prev_topK_scan, top>>
    /\ UNCHANGED <<value, sorted, scans>>
    /\ UNCHANGED tk_rest

\* finding_triangles_end, line 181-190, once the neighbors of v have been
\* scanned: max_scan.update(local_scan); known_scans.add(id, local_scan).
TkTrianglesEnd(v) ==
    /\ eng_phase = "run"
    /\ v \in nb_io
    /\ nb_io' = nb_io \ {v}
    /\ LET local_scan == LocalScan(edges, v)
       IN /\ value' = IF GmInstalls(local_scan, value) THEN local_scan
                                                       ELSE value
          /\ scans' = Append(scans, <<v, local_scan>>)
          /\ sorted' = FALSE
    /\ has_local_scan' = [has_local_scan EXCEPT ![v] = TRUE]
    /\ UNCHANGED <<verts, edges, eng_phase, level, active, next_active, io, flt,
                   msgs, n_req, n_cb, ran>>
    /\ UNCHANGED <<has_est, est_local, tk_pc, prev_topK_scan, top>>
    /\ UNCHANGED tk_others

TkNext ==
    \/ TkStage1
    \/ TkWait1
    \/ TkStage2
    \/ TkWait2
    \/ TkReport
    \/ \E v \in VertexIds : TkRun(v)
    \/ \E v \in VertexIds : TkRunOnItself(v)
    \/ \E v \in VertexIds : TkTrianglesEnd(v)
    \/ EngBarrier
    \/ EngNextLevel

\* The run starts on one of the small graphs or on one of the two graphs of
\* seven vertices.
InitTopK ==
    /\ GmInit /\ ScInit /\ WccInit /\ TkInit /\ WkInit /\ AppIdle
    /\ \/ \E g \in Graphs : EngInit(Vertices, g)
       \/ EngInit(HubVertices, HubGraph)
       \/ EngInit(HubVertices, SpurGraph)

SpecTopK == InitTopK /\ [][TkNext]_vars

\* The driver and the worker threads keep running: a step that stays possible
\* is taken.
SpecTopKFair == SpecTopK /\ WF_vars(TkNext)

\* C3: a vertex the filter of the running pass does not keep (degree below
\* min for remove_small_filter, degree squared below min for
\* remove_small_scan_filter) is never scheduled, never has run() invoked and
\* never has a request in flight in that pass.
C3_FilteredNeverRun ==
    \A v \in ran \cup active \cup io \cup nb_io :
        /\ flt.kind = "remove_small" => ~(NumEdges(edges, v) < flt.min)
        /\ flt.kind = "remove_small_scan" =>
              ~(NumEdges(edges, v) * NumEdges(edges, v) < flt.min)

\* A stage-2 pass has ended in which a vertex with edges stayed out, its
\* degree squared below the threshold, while another vertex ran.
C3_Witness ==
    /\ eng_phase = "quiescent"
    /\ flt.kind = "remove_small_scan"
    /\ ran # {}
    /\ \E v \in verts \ ran :
          /\ NumEdges(edges, v) > 0
          /\ NumEdges(edges, v) * NumEdges(edges, v) < flt.min

\* The largest local scan of the graph.
MaxLocalScan == SetMax({LocalScan(edges, v) : v \in verts})

\* C13: on any graph the run with K = 1 comes to its end and prints a vertex
\* together with its local scan, which is the largest local scan of the
\* graph.
C13_TerminatesWithMax ==
    /\ <>(tk_pc = "done")
    /\ [](tk_pc = "done" =>
            /\ Len(top) = 1
            /\ top[1][1] \in verts
            /\ top[1][2] = LocalScan(edges, top[1][1])
            /\ top[1][2] = MaxLocalScan)

\* C14: every pair of known_scans, and so every pair printed, is a vertex
\* whose local scan has been computed, with that local scan; known_scans
\* grows, and a callback raises max_scan, only in finding_triangles_end and
\* by the local scan handed to it.
C14_OnlyComputedScansKnown ==
    /\ [](\A i \in 1..Len(scans) :
            /\ has_local_scan[scans[i][1]]
            /\ scans[i][2] = LocalScan(edges, scans[i][1]))
    /\ [](\A i \in 1..Len(top) : top[i][2] = LocalScan(edges, top[i][1]))
    /\ [][/\ Len(scans') # Len(scans) =>
                \E v \in nb_io \ nb_io' :
                    scans' = Append(scans, <<v, LocalScan(edges, v)>>)
          /\ (value' # value /\ tk_pc' = tk_pc) =>
                \E v \in nb_io \ nb_io' : value' = LocalScan(edges, v)]_vars

\* A vertex whose estimate (4) and degree squared (4) differ from its local
\* scan (3) stands in known_scans with its local scan; the pair printed is
\* another.
C14_Witness ==
    /\ tk_pc = "done"
    /\ \E i \in 1..Len(scans) :
          LET v == scans[i][1]
          IN /\ has_est[v]
             /\ est_local[v] # scans[i][2]
             /\ NumEdges(edges, v) * NumEdges(edges, v) # scans[i][2]
             /\ top[1][1] # v


\* The upper bound run() holds against max_scan: the stored estimate, or the
\* degree squared when none is stored.
UpperBound(v) ==
    IF has_est[v] THEN est_local[v]
                  ELSE NumEdges(edges, v) * NumEdges(edges, v)

\* C15 as stated: run() asks for the vertex's edge list only when its bound
\* exceeds max_scan; with a bound that does not exceed it no request is made.
C15_RequestOnlyIfBoundExceeds ==
    [][(eng_phase = "run" /\ eng_phase' = "run") =>
          \A v \in active \ active' :
              v \in io' => UpperBound(v) > value]_vars

\* C15 amended: run() asks for the vertex's edge list exactly when the local
\* scan of the vertex is not computed yet and either an estimate is stored
\* and exceeds max_scan, or none is stored and the degree squared is at
\* least max_scan: a degree squared equal to max_scan does not skip the
\* request.
C15_RequestIffBoundNotBelow ==
    [][(eng_phase = "run" /\ eng_phase' = "run") =>
          \A v \in active \ active' :
              v \in io' <=>
                  /\ ~has_local_scan[v]
                  /\ IF has_est[v]
                       THEN est_local[v] > value
                       ELSE NumEdges(edges, v) * NumEdges(edges, v) >= value
      ]_vars

\* In a pass of stage 2 a vertex has a request in flight whose degree squared
\* equals max_scan, while a vertex with its local scan computed has run
\* without one.
C15_Witness ==
    /\ eng_phase = "run"
    /\ flt.kind = "remove_small_scan"
    /\ \E v \in io :
          /\ ~has_est[v]
          /\ NumEdges(edges, v) * NumEdges(edges, v) = value
    /\ \E v \in ran \ (io \cup nb_io) : has_local_scan[v]


\* C16: a pass of stage 2 starts with max_scan, the threshold of the filter
\* and prev_topK_scan all equal to the K-th largest known scan; when the pass
\* is complete the loop is left if the K-th largest known scan is still that
\* value and goes round again if it is not; stage 2 is left in no other way.
C16_Stage2FixedPoint ==
    [][/\ (tk_pc = "stage2" /\ tk_pc' = "wait2") =>
            LET kth == KthLargest(scans, topK - 1)
            IN /\ prev_topK_scan' = kth
               /\ value' = kth
               /\ flt' = SmallScanFilter(kth)
               /\ eng_phase' = "run"
       /\ (tk_pc = "wait2" /\ tk_pc' # "wait2") =>
            /\ eng_phase = "quiescent"
            /\ tk_pc' = IF KthLargest(scans, topK - 1) = prev_topK_scan
                          THEN "report" ELSE "stage2"
       /\ (tk_pc # "report" /\ tk_pc' = "report") => tk_pc = "wait2"
      ]_vars

\* Stage 2 has gone round more than once: it is left with prev_topK_scan
\* above the scan that stage 1 found.
C16_Witness ==
    /\ tk_pc = "report"
    /\ \E i \in 1..Len(scans) : scans[i][2] < prev_topK_scan
    /\ KthLargest(scans, topK - 1) = prev_topK_scan

\* C17: a pass of stage 1 is started only with fewer than K known scans, on
\* the vertices of degree min_edges or more; when it is complete max_scan is
\* set to 0 and the test is made again; stage 2 is entered, and get(K - 1)
\* called, only with K known scans or more.
C17_Stage1UntilKKnown ==
    /\ [](tk_pc \in {"stage2", "wait2", "report", "done"} =>
            Len(scans) >= topK)
    /\ [](tk_pc # Fault)
    /\ [][/\ (tk_pc = "stage1" /\ tk_pc' = "wait1") =>
                /\ Len(scans) < topK
                /\ flt' = SmallFilter(min_edges)
                /\ active' = {v \in verts : NumEdges(edges, v) >= min_edges}
                /\ eng_phase' = "run"
          /\ (tk_pc = "wait1" /\ tk_pc' # "wait1") =>
                /\ eng_phase = "quiescent"
                /\ value' = 0
                /\ tk_pc' = "stage1"
          /\ (tk_pc = "stage1" /\ tk_pc' = "stage2") => Len(scans) >= topK
         ]_vars

\* Stage 1 is left after a pass that found a scan: stage 2 is about to start
\* with K known scans and max_scan back at 0.
C17_Witness ==
    /\ tk_pc = "stage2"
    /\ Len(scans) = topK
    /\ scans[1][2] > 0
    /\ value = 0
    /\ prev_topK_scan = 0


\* Quiescence: no vertex is scheduled, no message is pending, no request is
\* in flight.
Quiescent ==
    /\ active = {}
    /\ next_active = {}
    /\ msgs = EmptyBag
    /\ io = {}
    /\ nb_io = {}

\* C18: wait4complete returns only at quiescence, and every step of a driver
\* (setting wcc_stage and starting, running the query, resetting max_scan,
\* reading known_scans) is taken with nothing scheduled, pending or in
\* flight: the engine has not been started yet or its run is complete.
C18_DriverActsAtQuiescence ==
    /\ [](eng_phase \in {"idle", "quiescent"} => Quiescent)
    /\ [][/\ (wcc_pc \in {"wait1", "wait2"} /\ wcc_pc' # wcc_pc) =>
                eng_phase = "quiescent" /\ Quiescent
          /\ (tk_pc \in {"wait1", "wait2"} /\ tk_pc' # tk_pc) =>
                eng_phase = "quiescent" /\ Quiescent
          /\ (wcc_pc' # wcc_pc \/ tk_pc' # tk_pc) =>
                eng_phase \in {"idle", "quiescent"} /\ Quiescent
          /\ (wcc_stage' # wcc_stage \/ vec' # vec) => Quiescent
         ]_vars

\* wait4complete has returned from a run of three supersteps or more in which
\* labels were sent and taken; the driver is about to set REMOVE_EMPTY.
C18_Witness ==
    /\ wcc_pc = "start2"
    /\ eng_phase = "quiescent"
    /\ level >= 2
    /\ \E v \in Vertices : received[v] # {} /\ component_id[v] < v

\* C19: while the driver waits in wait4complete with the run quiescent, no
\* callback runs, no message is delivered, and neither the state of a vertex
\* nor max_scan nor known_scans changes, up to the return of the call.
C19_WaitAtQuiescenceIsNoOp ==
    [][(tk_pc \in {"wait1", "wait2"} /\ Quiescent) =>
          /\ Quiescent'
          /\ UNCHANGED <<has_local_scan, has_est, est_local, n_req, n_cb,
                         ran, wcc_vars>>
          /\ tk_pc' = tk_pc =>
                UNCHANGED <<value, sorted, scans, prev_topK_scan, top>>
          /\ tk_pc' # tk_pc => eng_phase = "quiescent" /\ UNCHANGED eng_vars
      ]_vars

\* wait4complete has returned from a pass whose filter kept no vertex of a
\* graph with edges: nothing ran and nothing is known.
C19_Witness ==
    /\ tk_pc = "stage1"
    /\ eng_phase = "quiescent"
    /\ flt.kind = "remove_small"
    /\ edges # {}
    /\ ran = {}
    /\ scans = <<>>
    /\ \A v \in verts : n_cb[v] = 0

(***************************************************************************)
(* unique_merge, skip_self and merge_edge of overlap.cpp                   *)
(***************************************************************************)

\* skip_self::operator(), line 123-125.
skip_self(self, id) == self = id

\* merge_edge::operator(), line 131-134: called with equal arguments.
merge_edge(e1, e2) == e1

\* No run of equal elements is passed over.
PassEqualNone(s, it, v) == it

\* The inner loop "while (it != last && v == *it) { v = merge(v, *it);
\* ++it; }", line 57-60 (and 67-70, 77-85, 94-97, 105-108): where it stops.
RECURSIVE PassEqual(_, _, _)
PassEqual(s, it, v) ==
    IF it <= Len(s) /\ v = s[it]
      THEN PassEqual(s, it + 1, merge_edge(v, s[it]))
      ELSE it

\* "if (!skip(v)) *(result++) = v", line 61-62.
Emit(out, self, v) == IF skip_self(self, v) THEN out ELSE Append(out, v)

\* The three loops of unique_merge, line 52-110, from the positions it1 and
\* it2 on, with out written so far.
RECURSIVE MergeLoop(_, _, _, _, _, _)
MergeLoop(in1, in2, self, it1, it2, out) ==
    IF it1 <= Len(in1) /\ it2 <= Len(in2)
      THEN IF in2[it2] < in1[it1]
             THEN MergeLoop(in1, in2, self, it1,
                            PassEqual(in2, it2 + 1, in2[it2]),
                            Emit(out, self, in2[it2]))
             ELSE IF in1[it1] < in2[it2]
                    THEN MergeLoop(in1, in2, self,
                                   PassEqual(in1, it1 + 1, in1[it1]), it2,
                                   Emit(out, self, in1[it1]))
                    ELSE LET v == merge_edge(in1[it1], in2[it2])
                         IN MergeLoop(in1, in2, self,
                                      PassEqual(in1, it1 + 1, v),
                                      PassEqual(in2, it2 + 1, v),
                                      Emit(out, self, v))
      ELSE IF it1 <= Len(in1)
             THEN MergeLoop(in1, in2, self,
                            PassEqual(in1, it1 + 1, in1[it1]), it2,
                            Emit(out, self, in1[it1]))
             ELSE IF it2 <= Len(in2)
                    THEN MergeLoop(in1, in2, self, it1,
                                   PassEqual(in2, it2 + 1, in2[it2]),
                                   Emit(out, self, in2[it2]))
                    ELSE out

\* unique_merge(it1, last1, it2, last2, skip_self(self), merge_edge(),
\* result): what is written through result.
unique_merge(in1, in2, self) == MergeLoop(in1, in2, self, 1, 1, <<>>)

\* s is in ascending order, repeated elements allowed.
IsAscending(s) == \A i \in 1..(Len(s) - 1) : s[i] <= s[i + 1]

\* s is in ascending order and holds no element twice.
IsStrictlyAscending(s) == \A i \in 1..(Len(s) - 1) : s[i] < s[i + 1]

Elements(s) == {s[i] : i \in 1..Len(s)}

\* The ids of S in ascending order: an edge list as the graph file holds it.
SortedSeq(S) ==
    CHOOSE s \in [1..Cardinality(S) -> S] :
        Elements(s) = S /\ IsStrictlyAscending(s)

\* get_unique_neighbors(vertex, neighbors), line 137-150.
get_unique_neighbors(g, v) ==
    unique_merge(SortedSeq(InNeighbors(g, v)), SortedSeq(OutNeighbors(g, v)), v)

\* A search that answers "past the end" whatever it is handed.
lower_boundAtEnd(s, x) == Len(s) + 1

\* std::lower_bound(begin, end, x) on a vector in ascending order: the first
\* position whose element is not below x, or end.
lower_bound(s, x) == 1 + Cardinality({i \in 1..Len(s) : s[i] < x})

\* std::vector::insert(it, x).
Insert(s, it, x) == SubSeq(s, 1, it - 1) \o <<x>> \o SubSeq(s, it, Len(s))

(***************************************************************************)
(* overlap_vertex and main of overlap.cpp                                  *)
(***************************************************************************)

ov_others == <<gm_vars, sc_vars, wcc_vars, tk_vars, wk_vars, sch_vars,
               sig_vars, lib_vars>>

\* get_common_vertices, overlap.cpp:152-172, and get_union_vertices, line
\* 174-215, of two ascending vectors without repeated ids: the number of ids
\* in both, and in either.
get_common_vertices(vertices1, vertices2) ==
    Cardinality(vertices1 \cap vertices2)
get_union_vertices(vertices1, vertices2) ==
    Cardinality(vertices1 \cup vertices2)

\* main, line 413-414 and 421-422: set the stage and start the vertices of
\* overlap_vertices.
OvStart ==
    /\ ov_pc \in {"start1", "start2"}
    /\ overlap_stage' = IF ov_pc = "start1" THEN CONSTRUCT_NEIGHBORS
                                            ELSE COMP_OVERLAP
    /\ ov_pc' = IF ov_pc = "start1" THEN "wait1" ELSE "wait2"
    /\ EngStart(overlap_vertices, NoFilter)
    /\ UNCHANGED <<verts, edges, io, nb_io, msgs, n_req, n_cb>>
    /\ UNCHANGED <<overlap_vertices, neighborhood, overlaps, peeked>>
    /\ UNCHANGED ov_others

\* main, line 415 and 423: wait4complete() returns at quiescence.
OvWait ==
    /\ ov_pc \in {"wait1", "wait2"}
    /\ eng_phase = "quiescent"
    /\ ov_pc' = IF ov_pc = "wait1" THEN "start2" ELSE "done"
    /\ UNCHANGED <<overlap_stage, overlap_vertices, neighborhood, overlaps,
                   peeked>>
    /\ UNCHANGED eng_vars
    /\ UNCHANGED ov_others

\* The records run_stage2 of v reaches through get_vertex(id), line 318-321.
Stage2Reads(v) == {<<v, id>> : id \in overlap_vertices \ {v}}

\* overlap_vertex::run_stage2, line 317-328: for every other id of
\* overlap_vertices the neighborhood of that vertex is read from its record
\* and a line is printed; a NULL neighborhood is dereferenced.
OvRunStage2(v) ==
    IF \E id \in overlap_vertices \ {v} : neighborhood[id] = NULL
         \/ (overlap_vertices \ {v} # {} /\ neighborhood[v] = NULL)
      THEN /\ ov_pc' = Fault
           /\ UNCHANGED <<overlaps, peeked>>
      ELSE /\ overlaps' = overlaps \cup
                 {<<v, id,
                    get_common_vertices(Elements(neighborhood[v][1]),
                                        Elements(neighborhood[id][1])),
                    get_union_vertices(Elements(neighborhood[v][1]),
                                       Elements(neighborhood[id][1]))>> :
                        id \in overlap_vertices \ {v}}
           /\ peeked' = peeked \cup Stage2Reads(v)
           /\ UNCHANGED ov_pc

\* overlap_vertex::run(vertex_program &), line 299-315: run_stage1 asks for
\* the vertex's own edge list, run_stage2 computes the overlaps.
OvRun(v) ==
    /\ ov_pc # Fault
    /\ EngMayRun(v)
    /\ active' = active \ {v}
    /\ ran' = ran \cup {v}
    /\ IF overlap_stage = CONSTRUCT_NEIGHBORS
         THEN /\ EngRequest(v)
              /\ UNCHANGED <<overlaps, peeked, ov_pc>>
         ELSE /\ OvRunStage2(v)
              /\ UNCHANGED <<io, n_req>>
    /\ UNCHANGED <<verts, edges, eng_phase, level, next_active, nb_io, flt,
                   msgs, n_cb>>
    /\ UNCHANGED <<overlap_stage, overlap_vertices, neighborhood>>
    /\ UNCHANGED ov_others

\* overlap_vertex::run(prog, vertex) and run_on_itself, line 330-346: the
\* unique neighbors of the vertex are collected and its own id is inserted
\* where lower_bound points; a failed assertion ends the program.
OvRunOnItself(v) ==
    /\ ov_pc # Fault
    /\ EngMayResolve(v)
    /\ io' = io \ {v}
    /\ n_cb' = [n_cb EXCEPT ![v] = @ + 1]
    /\ LET neighbors == get_unique_neighbors(edges, v)
           it == lower_bound(neighbors, v)
           inserted == Insert(neighbors, it, v)
       IN IF /\ IsAscending(neighbors)
             /\ (it <= Len(neighbors) => neighbors[it] # v)
             /\ IsAscending(inserted)
            THEN /\ neighborhood' = [neighborhood EXCEPT ![v] = <<inserted>>]
                 /\ UNCHANGED ov_pc
            ELSE /\ ov_pc' = Fault
                 /\ UNCHANGED neighborhood
    /\ UNCHANGED <<verts, edges, eng_phase, level, active, next_active, nb_io,
                   flt, msgs, n_req, ran>>
    /\ UNCHANGED <<overlap_stage, overlap_vertices, overlaps, peeked>>
    /\ UNCHANGED ov_others

\* The barrier and the step to the next superstep, while main has not
\* faulted.
OvBarrier == ov_pc # Fault /\ EngBarrier
OvNextLevel == ov_pc # Fault /\ EngNextLevel

OvNext ==
    \/ OvStart
    \/ OvWait
    \/ \E v \in Vertices : OvRun(v)
    \/ \E v \in Vertices : OvRunOnItself(v)
    \/ OvBarrier
    \/ OvNextLevel

\* read_vertices, line 361-377 and 395: the ids of the vertex file; the
\* engine is created on the graph.
InitOverlap ==
    /\ GmInit /\ ScInit /\ WccInit /\ TkInit /\ WkInit /\ RdInit /\ SchIdle
    /\ SigIdle /\ LibIdle
    /\ \E g \in Graphs : EngInit(Vertices, g)
    /\ overlap_stage = CONSTRUCT_NEIGHBORS
    /\ overlap_vertices \in SUBSET Vertices
    /\ neighborhood = [v \in Vertices |-> NULL]
    /\ ov_pc = "start1"
    /\ overlaps = {}

SpecOverlap == InitOverlap /\ [][OvNext]_vars

\* C21: no callback of a vertex reads the record of another vertex through
\* get_vertex: what a vertex learns of another vertex comes with a request or
\* a message, so the history of such reads stays empty.
C21_NoDirectAccess == peeked = {}


\* The messages on their way to u.
PendingTo(u) ==
    BagCardinality([m \in {x \in BagToSet(msgs) : x.dst = u} |->
                       CopiesIn(m, msgs)])

\* C22: a multicast over a neighbor sequence leaves one message of its own
\* for every entry of the sequence, each with the sender's label; every
\* message is taken out once, by one invocation of run_on_message of its
\* destination; so the messages sent to a vertex are those it has handled
\* and those still on their way, and with none on their way it has handled
\* as many as were sent, however many came in one superstep.
C22_MulticastIsNSends ==
    /\ [](\A u \in Vertices : n_sent[u] = n_rom[u] + PendingTo(u))
    /\ [](msgs = EmptyBag => \A u \in Vertices : n_rom[u] = n_sent[u])
    /\ [][\A v \in io \ io' :
            wcc_stage = FIND_COMPONENTS =>
                /\ \A u \in Vertices :
                      PendingTo(u)' =
                          PendingTo(u)
                            + (IF <<v, u>> \in edges THEN 1 ELSE 0)
                            + (IF <<u, v>> \in edges THEN 1 ELSE 0)
                /\ \A m \in BagToSet(msgs') :
                      CopiesIn(m, msgs') > CopiesIn(m, msgs) =>
                          m.id = component_id[v] /\ m.lvl = level]_vars
    /\ [][\A u \in Vertices :
            /\ n_rom'[u] \in {n_rom[u], n_rom[u] + 1}
            /\ n_rom'[u] = n_rom[u] + 1 <=> PendingTo(u)' = PendingTo(u) - 1
            /\ n_rom'[u] = n_rom[u] + 1 =>
                  /\ \A w \in Vertices \ {u} : n_rom'[w] = n_rom[w]
                  /\ \E m \in BagToSet(msgs) :
                        /\ m.dst = u
                        /\ msgs' = msgs (-) SetToBag({m})
                        /\ m.id \in received'[u]]_vars

\* A vertex has handled three messages of the first superstep, two of them
\* from a neighbor it has an edge to and an edge from, and none is left.
C22_Witness ==
    /\ eng_phase = "deliver"
    /\ level = 0
    /\ \E u \in Vertices :
          /\ n_sent[u] = 3
          /\ n_rom[u] = 3
          /\ PendingTo(u) = 0
          /\ \E v \in Vertices : <<u, v>> \in edges /\ <<v, u>> \in edges


\* C23: the destination of a delivered message stands in the active set of
\* the next superstep, which is exactly the set of the vertices that were
\* handed a message, and that superstep begins: the delivery phase ends and
\* every vertex of an active set has its run(), by which alone it leaves the
\* set.  A wcc vertex marked updated is scheduled, in this superstep or the
\* next, and its run() asks for its edge list, to multicast the label it
\* holds.
C23_MessageActivatesReceiver ==
    /\ [][/\ \A m \in BagToSet(msgs) :
                CopiesIn(m, msgs') < CopiesIn(m, msgs) =>
                    m.dst \in next_active'
          /\ (eng_phase = "deliver" /\ eng_phase' = "run") =>
                /\ active' = next_active
                /\ level' = level + 1
          /\ (eng_phase = "deliver" /\ eng_phase' # "deliver") =>
                (eng_phase' = "run" <=> next_active # {})
          /\ \A v \in active \ active' :
                /\ eng_phase = "run" /\ v \in ran'
                /\ (wcc_stage = FIND_COMPONENTS /\ updated[v]) =>
                      (v \in io' /\ ~updated'[v])]_vars
    /\ [](next_active # {} => eng_phase = "deliver")
    /\ [](\A v \in Vertices :
            (wcc_stage = FIND_COMPONENTS /\ updated[v]) =>
                (v \in active \cup next_active \/ wcc_pc = "start1"))
    /\ []<>(active = {} /\ eng_phase # "deliver")

\* In the third superstep a vertex that a message gave a smaller label has
\* run and waits for its edge list; it has not multicast that label yet.
C23_Witness ==
    /\ eng_phase = "run"
    /\ level = 2
    /\ wcc_stage = FIND_COMPONENTS
    /\ \E v \in io :
          /\ component_id[v] < v
          /\ component_id[v] \in received[v]
          /\ cast[v] > component_id[v]


(***************************************************************************)
(* vertex_size_scheduler                                                   *)
(***************************************************************************)

sch_others == <<gm_vars, sc_vars, eng_vars, wcc_vars, tk_vars, wk_vars,
                rd_vars, ov_vars, sig_vars, lib_vars>>

\* The vectors of at most n vertex ids.
IdVectors(n) == UNION {[1..k -> Vertices] : k \in 0..n}

\* comp_size with the test turned round.
comp_sizeReversed(g, v1, v2) == NumEdges(g, v1) < NumEdges(g, v2)

\* class comp_size, line 51-57: v1->get_num_edges() > v2->get_num_edges().
comp_size(g, v1, v2) == NumEdges(g, v1) > NumEdges(g, v2)

\* std::sort(vertices.begin(), vertices.end(), comp_size()), line 59: some
\* permutation of the vector in which no later element goes before an
\* earlier one (the order of vertices of equal size is unspecified).
SortBySize(g, ids) ==
    {r \in {[i \in 1..Len(ids) |-> ids[f[i]]] :
                f \in Permutations(1..Len(ids))} :
        \A i \in 1..Len(r) : \A j \in 1..Len(r) :
            i < j => ~comp_size(g, r[j], r[i])}

\* vertex_size_scheduler::schedule, line 46-62: the records of the ids are
\* looked up, sorted by size, and their ids written back over the vector.
SchSchedule ==
    /\ sch_pc = "call"
    /\ sch_ids' \in SortBySize(edges, sch_ids)
    /\ sch_pc' = "dispatch"
    /\ UNCHANGED <<sch_in, sch_done>>
    /\ UNCHANGED sch_others

\* The engine dispatches the vertices of the scheduled vector in its order.
SchDispatch ==
    /\ sch_pc = "dispatch"
    /\ Len(sch_done) < Len(sch_ids)
    /\ sch_done' = Append(sch_done, sch_ids[Len(sch_done) + 1])
    /\ UNCHANGED <<sch_ids, sch_pc, sch_in>>
    /\ UNCHANGED sch_others

SchNext == SchSchedule \/ SchDispatch

\* The scheduler set at line 355 is handed the active vertices of a
\* superstep of some graph.
InitSchedule ==
    /\ GmInit /\ ScInit /\ WccInit /\ TkInit /\ WkInit /\ RdInit /\ OvIdle
    /\ SigIdle /\ LibIdle
    /\ \E g \in WkGraphs : EngInit(Vertices, g)
    /\ sch_ids \in IdVectors(NumV)
    /\ sch_in = sch_ids
    /\ sch_pc = "call"
    /\ sch_done = <<>>

SpecSchedule == InitSchedule /\ [][SchNext]_vars

\* How often id v stands in the vector ids.
Occurrences(ids, v) == Cardinality({i \in 1..Len(ids) : ids[i] = v})

\* C24: when schedule has returned, the vector holds the ids it was handed,
\* each as often, in an order in which the number of edges does not grow;
\* the vertices are dispatched in that order, so no vertex is dispatched
\* before one of more edges that stands in the vector.
C24_ScheduleOrdersBySize ==
    sch_pc = "dispatch" =>
        /\ Len(sch_ids) = Len(sch_in)
        /\ \A v \in Vertices :
              Occurrences(sch_ids, v) = Occurrences(sch_in, v)
        /\ \A i \in 1..Len(sch_ids) : \A j \in 1..Len(sch_ids) :
              i < j => NumEdges(edges, sch_ids[i]) >= NumEdges(edges, sch_ids[j])
        /\ sch_done = SubSeq(sch_ids, 1, Len(sch_done))
        /\ \A i \in 1..Len(sch_done) :
              \A j \in (Len(sch_done) + 1)..Len(sch_ids) :
                  NumEdges(edges, sch_done[i]) >= NumEdges(edges, sch_ids[j])

\* A vector of three ids, one of them twice, handed over with the vertex of
\* most edges last; all three have been dispatched, that vertex first.
C24_Witness ==
    /\ sch_pc = "dispatch"
    /\ Len(sch_in) = 3
    /\ \E v \in Vertices : Occurrences(sch_in, v) = 2
    /\ NumEdges(edges, sch_in[3]) > NumEdges(edges, sch_in[1])
    /\ Len(sch_done) = 3
    /\ sch_done[1] = sch_in[3]
    /\ sch_done # sch_in


(***************************************************************************)
(* The interrupt of the top-K run                                          *)
(***************************************************************************)

\* main, line 340-359, once the handler is registered (line 339): the
\* engine is created and, with a profile file configured, ProfilerStart().
TkSetup ==
    /\ tk_pc = "setup"
    /\ profiling' = prof_file
    /\ tk_pc' = "stage1"
    /\ UNCHANGED <<has_local_scan, has_est, est_local, prev_topK_scan, top>>
    /\ UNCHANGED <<value, sorted, scans>>
    /\ UNCHANGED eng_vars
    /\ UNCHANGED <<gm_rest, sc_rest, wcc_vars, wk_vars, rd_vars, ov_vars,
                   sch_vars, lib_vars, prof_file, flushed>>

\* main has not returned and the process has not ended.
TkAlive == tk_pc \notin {"done", "exited", Fault}

\* The handler calling ProfilerStop() whether or not a file is configured.
int_handlerStopsAlways ==
    /\ TkAlive
    /\ flushed' = TRUE
    /\ profiling' = FALSE
    /\ tk_pc' = "exited"
    /\ eng_phase' = "exited"
    /\ UNCHANGED <<has_local_scan, has_est, est_local, prev_topK_scan, top>>
    /\ UNCHANGED <<value, sorted, scans>>
    /\ UNCHANGED <<verts, edges, level, active, next_active, io, nb_io, flt,
                   msgs, n_req, n_cb, ran>>
    /\ UNCHANGED <<gm_rest, sc_rest, wcc_vars, wk_vars, rd_vars, ov_vars,
                   sch_vars, lib_vars, prof_file>>

\* int_handler, line 283-288, on SIGINT: ProfilerStop() with a profile file
\* configured, then exit(0): the process ends with whatever is scheduled,
\* requested or pending.
int_handler ==
    /\ TkAlive
    /\ flushed' = prof_file
    /\ profiling' = IF prof_file THEN FALSE ELSE profiling
    /\ tk_pc' = "exited"
    /\ eng_phase' = "exited"
    /\ UNCHANGED <<has_local_scan, has_est, est_local, prev_topK_scan, top>>
    /\ UNCHANGED <<value, sorted, scans>>
    /\ UNCHANGED <<verts, edges, level, active, next_active, io, nb_io, flt,
                   msgs, n_req, n_cb, ran>>
    /\ UNCHANGED <<gm_rest, sc_rest, wcc_vars, wk_vars, rd_vars, ov_vars,
                   sch_vars, lib_vars, prof_file>>

TkSigNext ==
    \/ TkSetup
    \/ TkNext
    \/ int_handler

\* main at line 339, the handler registered: a profile file is configured
\* or not, the profiler does not run yet.
InitInterrupt ==
    /\ GmInit /\ ScInit /\ WccInit /\ WkInit /\ RdInit /\ OvIdle /\ SchIdle
    /\ LibIdle
    /\ \/ \E g \in Graphs : EngInit(Vertices, g)
       \/ EngInit(HubVertices, HubGraph)
    /\ has_local_scan = [v \in VertexIds |-> FALSE]
    /\ has_est = [v \in VertexIds |-> FALSE]
    /\ est_local = [v \in VertexIds |-> 0]
    /\ tk_pc = "setup"
    /\ prev_topK_scan = 0
    /\ top = <<>>
    /\ prof_file \in BOOLEAN
    /\ profiling = FALSE
    /\ flushed = FALSE

SpecInterrupt == InitInterrupt /\ [][TkSigNext]_vars

\* C25: while the run lasts the interrupt can be taken in every state, with
\* vertices scheduled, requests in flight or a pass incomplete; the handler
\* ends the process in its one step, calls ProfilerStop() exactly when a
\* profile file is configured and leaves no profiler running; it prints no
\* result and touches neither max_scan nor known_scans; and once the process
\* has ended nothing is requested, run or delivered any more.
C25_InterruptStopsAtOnce ==
    /\ [](TkAlive => ENABLED int_handler)
    /\ [](tk_pc = "exited" =>
            /\ flushed <=> prof_file
            /\ ~profiling
            /\ top = <<>>
            /\ eng_phase = "exited")
    /\ [](profiling => prof_file)
    /\ [][(tk_pc' = "exited" /\ tk_pc # "exited") =>
            /\ TkAlive
            /\ UNCHANGED <<value, sorted, scans, top, io, nb_io, active,
                           next_active, msgs, n_req, n_cb>>]_vars
    /\ [][tk_pc # "exited"]_vars

\* The process has ended on the interrupt in the middle of a pass of stage
\* 2: a vertex was scheduled, another waited for its edge list, a third had
\* its neighbors requested; the profiler was running and has been stopped.
C25_Witness ==
    /\ tk_pc = "exited"
    /\ flt.kind = "remove_small_scan"
    /\ active # {}
    /\ io # {}
    /\ nb_io # {}
    /\ scans # <<>>
    /\ prof_file /\ flushed /\ ~profiling


\* C26: a get(idx) with idx at or past the number of recorded scans faults:
\* no such call comes to hand a pair back to its caller.
C26_GetPastEndFaults ==
    \A t \in Threads :
        sc_pc[t] = "g_unlock" => sc_arg[t] < Len(scans)


\* C27: on every graph the program is run on the degree squared and the
\* estimate of get_est_local_scan are at least the local scan of the
\* vertex, and so is every stored estimate; hence a vertex that run() leaves
\* without a request though its local scan is not computed, a vertex whose
\* run_on_itself returns before the scan, and a vertex that
\* remove_small_scan_filter keeps out of a pass all have a local scan that
\* does not exceed max_scan.
C27_BoundsAreUpperBounds ==
    /\ [](\A v \in verts :
            /\ LocalScan(edges, v) <= NumEdges(edges, v) * NumEdges(edges, v)
            /\ LocalScan(edges, v) <= EstLocalScan(edges, v)
            /\ has_est[v] => LocalScan(edges, v) <= est_local[v])
    /\ [][/\ (eng_phase = "run" /\ eng_phase' = "run") =>
                /\ \A v \in active \ active' :
                      (v \notin io' /\ ~has_local_scan[v]) =>
                          LocalScan(edges, v) <= value
                /\ \A v \in io \ io' :
                      v \notin nb_io' => LocalScan(edges, v) <= value
          /\ (tk_pc = "stage2" /\ tk_pc' = "wait2") =>
                \A v \in verts \ active' : LocalScan(edges, v) <= value'
         ]_vars

\* In a pass of stage 2, with max_scan raised above its threshold: a vertex
\* has run without a request, its degree squared below max_scan; another has
\* had its edge list and no scan, its estimate below max_scan and above its
\* local scan.
C27_Witness ==
    /\ eng_phase = "run"
    /\ flt.kind = "remove_small_scan"
    /\ value > flt.min
    /\ \E v \in ran \ (io \cup nb_io) :
          /\ ~has_local_scan[v] /\ ~has_est[v]
          /\ NumEdges(edges, v) * NumEdges(edges, v) < value
          /\ LocalScan(edges, v) > 0
    /\ \E u \in ran \ (io \cup nb_io) :
          /\ ~has_local_scan[u] /\ has_est[u]
          /\ est_local[u] < value
          /\ LocalScan(edges, u) < est_local[u]


\* The driver is in the stage-2 do-while.
InStage2 == tk_pc \in {"stage2", "wait2"}

\* C28: once K scans are known the K-th largest known scan never decreases
\* and never exceeds the largest local scan of the graph; when the test of
\* the stage-2 loop sends the driver round again the K-th largest known scan
\* is above the value the pass started with; and the driver always leaves the
\* stage-2 loop again.
C28_Stage2Terminates ==
    /\ [](Len(scans) >= topK => KthLargest(scans, topK - 1) <= MaxLocalScan)
    /\ [][/\ Len(scans) >= topK =>
                KthLargest(scans', topK - 1) >= KthLargest(scans, topK - 1)
          /\ (tk_pc = "wait2" /\ tk_pc' = "stage2") =>
                KthLargest(scans', topK - 1) > prev_topK_scan
          /\ (tk_pc = "stage2" /\ tk_pc' = "wait2") =>
                prev_topK_scan' >= prev_topK_scan
         ]_vars
    /\ []<>(~InStage2)

\* The test after a pass of stage 2 has sent the driver round again: the
\* K-th largest known scan is above the one the pass started with.
C28_Witness ==
    /\ tk_pc = "stage2"
    /\ prev_topK_scan > 0
    /\ KthLargest(scans, topK - 1) > prev_topK_scan


\* C29: on a graph with K vertices or more that have an edge, the driver
\* eventually leaves the stage-1 loop.
C29_Stage1Terminates ==
    Cardinality({v \in verts : NumEdges(edges, v) >= 1}) >= topK =>
        <>(tk_pc \notin {"stage1", "wait1"})


\* The FIND_COMPONENTS run has become quiescent.
FindQuiescent ==
    /\ wcc_stage = FIND_COMPONENTS
    /\ wcc_pc = "wait1"
    /\ eng_phase = "quiescent"

\* C30: with the callbacks executed side by side on the worker threads, a
\* step that lowers the component_id of a vertex sets its updated flag and
\* has the vertex in the next active set; a vertex with updated set is
\* scheduled or inside its run(); the data callback multicasts the
\* component_id the vertex has; and when the FIND_COMPONENTS run is quiescent
\* no vertex has updated set, the least label a vertex has multicast is its
\* component_id, and every neighbor of it has handled a label that is not
\* above it.
C30_NoImprovementLost ==
    /\ [][\A v \in Vertices :
            /\ component_id'[v] <= component_id[v]
            /\ component_id'[v] < component_id[v] =>
                  /\ updated'[v]
                  /\ v \in next_active'
                  /\ eng_phase = "deliver"
            /\ cast'[v] # cast[v] =>
                  /\ cast'[v] = component_id[v]
                  /\ v \in ran
            /\ (updated[v] /\ ~updated'[v]) => v \in io]_vars
    /\ [](\A v \in Vertices :
            (updated[v] /\ wcc_stage = FIND_COMPONENTS /\ wcc_pc # "start1") =>
                \/ v \in active \cup next_active
                \/ \E t \in Threads : cb[t].v = v /\ cb[t].at = "run")
    /\ [](FindQuiescent =>
            \A v \in Vertices :
                /\ ~updated[v]
                /\ cast[v] = component_id[v]
                /\ \A u \in UniqueNeighbors(edges, v) :
                      \E id \in received[u] : id <= component_id[v])

\* The FIND_COMPONENTS run is quiescent; a vertex has lowered its label
\* twice, and its neighbor has handled the lower one.
C30_Witness ==
    /\ FindQuiescent
    /\ \E v \in Vertices :
          /\ \E a, b \in received[v] : a < b /\ b < v /\ component_id[v] = a
          /\ cast[v] = component_id[v]
          /\ \E u \in UniqueNeighbors(edges, v) : component_id[v] \in received[u]


\* C31: a run starts with every vertex carrying its own id, updated set and
\* empty clear; in every state of the run the component_id of a vertex is at
\* most its own id and is the id of a vertex of its weakly connected
\* component, and so is every label on its way to it.
C31_LabelStaysInComponent ==
    /\ \A v \in Vertices :
          component_id[v] = v /\ updated[v] /\ ~empty[v]
    /\ [](\A v \in Vertices :
            /\ component_id[v] <= v
            /\ component_id[v] \in Closure(edges, {v}))
    /\ [](\A m \in BagToSet(msgs) : m.id \in Closure(edges, {m.dst}))

\* A vertex carries the id of another vertex of its component while a vertex
\* of a smaller id stands in another component.
C31_Witness ==
    \E v \in Vertices :
        /\ component_id[v] < v
        /\ \E u \in Vertices \ Closure(edges, {v}) : u < component_id[v]


\* The REMOVE_EMPTY run has been started and compute_wcc waits for it.
InRemoveEmpty == wcc_stage = REMOVE_EMPTY /\ wcc_pc = "wait2"

\* C32: in the REMOVE_EMPTY stage every request a vertex issues is a
\* request_num_edges, one a vertex; no message is sent; component_id and
\* updated of every vertex stay as they are; empty is written only in answer
\* to the request and becomes "the vertex has no edge"; the run stays in its
\* first superstep, and when it is quiescent every vertex has run, has made
\* its one request and has empty set accordingly; the run does become
\* quiescent: the stage is always left, and only at quiescence, for the query.
C32_RemoveEmptyOnlyReadsDegrees ==
    /\ [][wcc_stage' = REMOVE_EMPTY =>
            /\ component_id' = component_id
            /\ updated' = updated
            /\ msgs' = EmptyBag
            /\ n_sent' = n_sent
            /\ \A v \in Vertices :
                  /\ n_req'[v] - n_req[v] = n_deg'[v] - n_deg[v]
                  /\ v \in io' \ io => n_deg'[v] = n_deg[v] + 1
                  /\ empty'[v] # empty[v] =>
                        /\ v \in io \ io'
                        /\ empty'[v] = (NumEdges(edges, v) = 0)
            /\ (InRemoveEmpty /\ ~InRemoveEmpty') =>
                  eng_phase = "quiescent" /\ wcc_pc' = "query"]_vars
    /\ [](wcc_stage = FIND_COMPONENTS => \A v \in Vertices : n_deg[v] = 0)
    /\ [](InRemoveEmpty => level = 0 /\ next_active = {})
    /\ []((InRemoveEmpty /\ eng_phase = "quiescent") =>
            \A v \in Vertices :
                /\ v \in ran
                /\ n_deg[v] = 1
                /\ empty[v] = (NumEdges(edges, v) = 0))
    /\ []<>(~InRemoveEmpty)

\* The REMOVE_EMPTY run is quiescent on a graph with a vertex without edges
\* and a vertex that carries the label of a neighbor: the first has empty
\* set, the second has not.
C32_Witness ==
    /\ InRemoveEmpty
    /\ eng_phase = "quiescent"
    /\ \E v \in Vertices : empty[v] /\ n_deg[v] = 1
    /\ \E v \in Vertices : ~empty[v] /\ component_id[v] < v /\ n_deg[v] = 1


(***************************************************************************)
(* A call of unique_merge                                                  *)
(***************************************************************************)

\* The ranges a call is handed: every sequence of up to MaxLen ids.
Ranges == UNION {[1..n -> 0..MaxId] : n \in 0..MaxLen}

\* The call: the elements are written and their number is returned.
UmCall ==
    /\ um_pc = "call"
    /\ um_out' = unique_merge(um_in1, um_in2, um_id)
    /\ um_ret' = Len(unique_merge(um_in1, um_in2, um_id))
    /\ um_pc' = "returned"
    /\ UNCHANGED <<um_in1, um_in2, um_id>>
    /\ UNCHANGED <<gm_vars, sc_vars, eng_vars, wcc_vars, tk_vars, wk_vars,
                   rd_vars, ov_vars, sch_vars, sig_vars, km_vars>>

UmNext == UmCall

InitMerge ==
    /\ GmInit /\ ScInit /\ WccInit /\ TkInit /\ WkInit
    /\ RdInit /\ OvIdle /\ SchIdle /\ SigIdle /\ KmIdle
    /\ EngInit(Vertices, {})
    /\ um_in1 \in Ranges
    /\ um_in2 \in Ranges
    /\ um_id \in 0..MaxId
    /\ um_out = <<>>
    /\ um_ret = 0
    /\ um_pc = "call"

SpecMerge == InitMerge /\ [][UmNext]_vars

\* C33: unique_merge returns the number of elements it has written, which
\* is not above the lengths of the two ranges together; handed two ranges in
\* ascending order it writes, in ascending order and each once, the
\* elements of either range that skip does not hold.
C33_UniqueMergeIsUnion ==
    um_pc = "returned" =>
        /\ um_ret = Len(um_out)
        /\ um_ret <= Len(um_in1) + Len(um_in2)
        /\ (IsAscending(um_in1) /\ IsAscending(um_in2)) =>
              /\ IsStrictlyAscending(um_out)
              /\ Elements(um_out) =
                    (Elements(um_in1) \cup Elements(um_in2)) \ {um_id}

\* The call has returned on two ascending ranges that each hold an element
\* twice and share an element, with the skipped id in one of them.
C33_Witness ==
    /\ um_pc = "returned"
    /\ IsAscending(um_in1) /\ ~IsStrictlyAscending(um_in1)
    /\ IsAscending(um_in2) /\ ~IsStrictlyAscending(um_in2)
    /\ Elements(um_in1) \cap Elements(um_in2) # {}
    /\ um_id \in Elements(um_in1) \cup Elements(um_in2)
    /\ Len(um_out) >= 2


\* C34: no assertion of run_on_itself fails; once the data callback of a
\* vertex has returned, its neighborhood is a vector in ascending order
\* without repeated elements that holds the id of the vertex and its
\* neighbors on in- and out-edges, and nothing else.
C34_NeighborhoodSortedWithSelf ==
    /\ [](ov_pc # Fault)
    /\ [](\A v \in Vertices :
            neighborhood[v] # NULL =>
                /\ IsStrictlyAscending(neighborhood[v][1])
                /\ Elements(neighborhood[v][1]) =
                      UniqueNeighbors(edges, v) \cup {v}
                /\ Len(neighborhood[v][1]) =
                      Cardinality(UniqueNeighbors(edges, v)) + 1)
    /\ [][\A v \in io \ io' : neighborhood'[v] # NULL]_vars

\* The data callback of a vertex has returned; the vertex has a neighbor of
\* a smaller and one of a greater id, one of them on an in-edge and an
\* out-edge, so its id was inserted in the middle of the vector.
C34_Witness ==
    \E v \in Vertices :
        /\ neighborhood[v] # NULL
        /\ Len(neighborhood[v][1]) = 3
        /\ neighborhood[v][1][2] = v
        /\ \E u \in Vertices : <<u, v>> \in edges /\ <<v, u>> \in edges


\* The calls of add whose push_back has been executed.
AddsDone ==
    sc_calls - Cardinality({t \in Threads :
                              sc_pc[t] \in {"a_spin", "a_clear", "a_push"}})

\* The process has not been ended by a fault.
ScRunning == \A t \in Threads : sc_pc[t] # Fault

\* C35: with the workers calling add, get and get_size side by side, at
\* most one thread is between lock and unlock; the vector holds the pairs
\* that have been added, each as often, as many as adds have been executed;
\* get_size returns that number (as long as no get past the end has ended
\* the process); and a step changes the vector only by
\* appending the pair of the add that executes it or, in get, by reordering
\* it.
C35_NoAddLostOrDuplicated ==
    /\ [](\A t \in Threads :
            /\ ScInside(t) => sc_lock = t
            /\ sc_pc[t] = "s_unlock" => sc_ret[t] = AddsDone)
    /\ [](SameBag(scans, added))
    /\ [](ScRunning => Len(scans) = AddsDone)
    /\ [][scans' # scans =>
            \/ \E t \in Threads :
                  /\ sc_pc[t] = "a_push" /\ sc_pc'[t] = "a_unlock"
                  /\ scans' = Append(scans, sc_arg[t])
            \/ \E t \in Threads :
                  /\ sc_pc[t] = "g_sort" /\ sc_pc'[t] = "g_read"
                  /\ SameBag(scans', scans)]_vars

\* One thread is inside get_size and has read the size 2 while the other
\* waits for the lock inside get; both adds were executed, by different
\* threads, and a get has since reordered the vector.
C35_Witness ==
    \E t, u \in Threads :
        /\ t # u
        /\ sc_pc[t] = "s_unlock" /\ sc_ret[t] = 2
        /\ sc_pc[u] = "g_spin"
        /\ Len(scans) = 2
        /\ scans # added


\* C36: no vertex stands twice in known_scans; a vertex whose local scan has
\* been computed keeps that mark, has no request in flight, and its run()
\* issues no request, in whatever superstep and pass it is invoked.
C36_EachVertexAddedOnce ==
    /\ [](\A i, j \in 1..Len(scans) : scans[i][1] = scans[j][1] => i = j)
    /\ [](\A v \in verts : has_local_scan[v] => v \notin io \cup nb_io)
    /\ [][\A v \in verts :
            /\ has_local_scan[v] => has_local_scan'[v]
            /\ (has_local_scan[v] /\ v \in active \ active') =>
                  (v \in ran' /\ v \notin io' /\ n_req' = n_req)
            /\ (has_local_scan'[v] /\ ~has_local_scan[v]) =>
                  scans' = Append(scans, <<v, LocalScan(edges, v)>>)]_vars

\* A pass of stage 2 in which nothing has been added yet: a vertex whose
\* local scan was computed in an earlier pass has run and has made no
\* request, though its estimate is above max_scan, while another vertex has
\* its request in flight.
C36_Witness ==
    /\ eng_phase = "run"
    /\ flt.kind = "remove_small_scan"
    /\ sorted
    /\ \E v \in ran :
          /\ has_local_scan[v] /\ v \notin io
          /\ has_est[v] /\ est_local[v] > value
    /\ \E u \in ran : ~has_local_scan[u] /\ u \in io


(***************************************************************************)
(* compute_min_kmeans of min-tri-kmeans.cpp                                *)
(***************************************************************************)

km_others == <<gm_vars, sc_vars, eng_vars, wcc_vars, tk_vars, wk_vars, rd_vars,
               ov_vars, sch_vars, sig_vars, um_vars>>

\* The strings the two parameters are compared with, and one that stands
\* for every other string.
DistNames == {"eucl", "cos"}
InitNames == {"random", "forgy", "kmeanspp", "none"}
OtherName == "other"

\* exit(-1): the status the parent sees is the low eight bits.
ExitStatus(code) == code % 256

\* BOOST_LOG_TRIVIAL(fatal) << ...; exit(-1), line 284-287, 315-318 and
\* 337-341.
KmFatal ==
    /\ km_fatal' = km_fatal + 1
    /\ km_exit' = ExitStatus(-1)
    /\ km_pc' = "exited"

\* The test of k without its lower limit.
KmCheckKNoLower ==
    /\ km_pc = "check_k"
    /\ IF K > NUM_ROWS
         THEN KmFatal
         ELSE /\ km_pc' = "dist"
              /\ UNCHANGED <<km_fatal, km_exit>>
    /\ UNCHANGED <<K, NUM_ROWS, MAX_ITERS, km_init, dist_type, g_dist_type,
                   g_init_type, iter, km_em, km_inits>>
    /\ UNCHANGED km_others

\* line 282-288: "if (K > NUM_ROWS || K < 2 || K == (unsigned)-1)"; K stays
\* far below (unsigned)-1 here, where the first test holds anyway.
KmCheckK ==
    /\ km_pc = "check_k"
    /\ IF K > NUM_ROWS \/ K < 2
         THEN KmFatal
         ELSE /\ km_pc' = "dist"
              /\ UNCHANGED <<km_fatal, km_exit>>
    /\ UNCHANGED <<K, NUM_ROWS, MAX_ITERS, km_init, dist_type, g_dist_type,
                   g_init_type, iter, km_em, km_inits>>
    /\ UNCHANGED km_others

\* line 290-319: the data structures are set up and dist_type is compared.
KmDistType ==
    /\ km_pc = "dist"
    /\ IF dist_type = "eucl" \/ dist_type = "cos"
         THEN /\ g_dist_type' = IF dist_type = "eucl" THEN "EUCL" ELSE "COS"
              /\ km_pc' = "init"
              /\ UNCHANGED <<km_fatal, km_exit>>
         ELSE /\ KmFatal
              /\ UNCHANGED g_dist_type
    /\ UNCHANGED <<K, NUM_ROWS, MAX_ITERS, km_init, dist_type, g_init_type,
                   iter, km_em, km_inits>>
    /\ UNCHANGED km_others

\* line 321-342: the initialization named by init is run.
KmInitialize ==
    /\ km_pc = "init"
    /\ IF km_init \in {"random", "forgy", "kmeanspp", "none"}
         THEN /\ g_init_type' = CASE km_init = "random" -> "RANDOM"
                                  [] km_init = "forgy" -> "FORGY"
                                  [] km_init = "kmeanspp" -> "PLUSPLUS"
                                  [] km_init = "none" -> "NONE"
              /\ km_inits' = km_inits + 1
              /\ km_pc' = "em0"
              /\ UNCHANGED <<km_fatal, km_exit>>
         ELSE /\ KmFatal
              /\ UNCHANGED <<g_init_type, km_inits>>
    /\ UNCHANGED <<K, NUM_ROWS, MAX_ITERS, km_init, dist_type, g_dist_type,
                   iter, km_em>>
    /\ UNCHANGED km_others

\* line 352-367: the first EM_step; "unsigned iter = 1".
KmFirstEM ==
    /\ km_pc = "em0"
    /\ km_em' = km_em + 1
    /\ iter' = 1
    /\ km_pc' = "loop"
    /\ UNCHANGED <<K, NUM_ROWS, MAX_ITERS, km_init, dist_type, g_dist_type,
                   g_init_type, km_inits, km_fatal, km_exit>>
    /\ UNCHANGED km_others

\* line 369-400: "while (iter < MAX_ITERS)": an EM_step, after which the
\* loop is left when few enough rows have changed their cluster.
KmIterate ==
    /\ km_pc = "loop"
    /\ IF iter < MAX_ITERS
         THEN /\ km_em' = km_em + 1
              /\ \E converged \in BOOLEAN :
                    IF converged
                      THEN km_pc' = "report" /\ UNCHANGED iter
                      ELSE km_pc' = "loop" /\ iter' = iter + 1
         ELSE /\ km_pc' = "report"
              /\ UNCHANGED <<km_em, iter>>
    /\ UNCHANGED <<K, NUM_ROWS, MAX_ITERS, km_init, dist_type, g_dist_type,
                   g_init_type, km_inits, km_fatal, km_exit>>
    /\ UNCHANGED km_others

\* line 402-426: the result is logged and the function returns.
KmReturn ==
    /\ km_pc = "report"
    /\ km_pc' = "returned"
    /\ UNCHANGED <<K, NUM_ROWS, MAX_ITERS, km_init, dist_type, g_dist_type,
                   g_init_type, iter, km_em, km_inits, km_fatal, km_exit>>
    /\ UNCHANGED km_others

KmNext ==
    \/ KmCheckK
    \/ KmDistType
    \/ KmInitialize
    \/ KmFirstEM
    \/ KmIterate
    \/ KmReturn

\* The call with its arguments: line 263-276.
InitKmeans ==
    /\ GmInit /\ ScInit /\ WccInit /\ TkInit /\ WkInit
    /\ RdInit /\ OvIdle /\ SchIdle /\ SigIdle /\ UmIdle
    /\ EngInit(Vertices, {})
    /\ K \in 0..MaxK
    /\ NUM_ROWS \in 0..MaxRows
    /\ MAX_ITERS \in 0..MaxIters
    /\ km_init \in InitNames \cup {OtherName}
    /\ dist_type \in DistNames \cup {OtherName}
    /\ g_dist_type = "unset"
    /\ g_init_type = "unset"
    /\ iter = 0
    /\ km_pc = "check_k"
    /\ km_em = 0
    /\ km_inits = 0
    /\ km_fatal = 0
    /\ km_exit = NoExit

SpecKmeans == InitKmeans /\ [][KmNext]_vars

\* The function keeps running: a statement that can be executed is.
SpecKmeansFair == SpecKmeans /\ WF_vars(KmNext)

\* The configuration is one the claim calls invalid.
KmInvalid ==
    \/ K > NUM_ROWS
    \/ K < 2
    \/ dist_type \notin DistNames
    \/ km_init \notin InitNames

\* C37: called with k above the number of rows, k below 2, a dist_type
\* other than "eucl" and "cos" or an init other than "random", "forgy",
\* "kmeanspp" and "none", compute_min_kmeans runs no initialization and no
\* EM_step and does not return: it logs one fatal message and exits with a
\* status that is not 0; and it exits in no other case.
C37_InvalidConfigurationExits ==
    /\ [](KmInvalid => km_em = 0 /\ km_inits = 0 /\ km_pc # "returned")
    /\ [](km_pc = "exited" <=> km_exit # NoExit)
    /\ [](km_pc = "exited" =>
            /\ KmInvalid
            /\ km_fatal = 1
            /\ km_exit # 0)
    /\ [](km_pc # "exited" => km_fatal = 0)
    /\ [](KmInvalid => <>(km_pc = "exited"))

\* The call has exited at the last of the tests: k and dist_type were
\* accepted, the distance is set, and init is none of the four names.
C37_Witness ==
    /\ km_pc = "exited"
    /\ K >= 2 /\ K <= NUM_ROWS
    /\ g_dist_type = "COS"
    /\ km_init = OtherName
    /\ km_exit = 255
    /\ km_em = 0

=============================================================================
